---- MODULE Spec2Model ----
(***************************************************************************)
(* Model of the inline-SVG Designer extension (src/unnamed/part_001):      *)
(* the shape-to-path normalizer, the host materializer                     *)
(* (applySvgIntoWebflow), the restyle engine (restyleExistingInWebflow)    *)
(* and the App component that drives them (applyIntoWebflow, the debounced *)
(* auto-apply effect, the Apply button); of the text functions on their   *)
(* own (isValidSVG, applyStylesToSVGForPreview); of handleApplySVG of      *)
(* src/unnamed/part_002; and of the isApplying flag of src/src/index.tsx.  *)
(*                                                                         *)
(* Conventions.                                                            *)
(*  - An optional value (a nullable attribute, a missing map entry) is a   *)
(*    sequence of length 0 or 1: None / Some(v).                           *)
(*  - Lengths and coordinates are counted in half user units (U(5) is      *)
(*    5.0), so that the halving in rectToPath is exact.                    *)
(*  - Opacity is counted in tenths.                                        *)
(*  - An async function is a process whose pc names the host call it has   *)
(*    issued and is awaiting; one step is the host performing the call,    *)
(*    the promise settling and the function running on to its next await.  *)
(***************************************************************************)
EXTENDS Integers, Sequences, FiniteSets, TLC

None == <<>>
Some(v) == <<v>>
IsSome(o) == Len(o) = 1
Get(o) == o[1]

U(n) == 2 * n

Min(a, b) == IF a <= b THEN a ELSE b

\* JavaScript a || b on numbers: a unless a is 0.
Or(a, b) == IF a # 0 THEN a ELSE b

(***************************************************************************)
(* Bounds of the model.                                                    *)
(***************************************************************************)
\* applyIntoWebflow invocations in one behaviour
MaxApplies == 2
\* events of the environment in one behaviour: user edits (uploads, gallery
\* clicks, style and target changes, toggles) and departures of the host
\* from the normal case (a call that rejects, an element handed out with
\* restricted capabilities)
MaxEvents == 3
\* elements of a source document drawn for the normalizer on its own
MaxElems == 4
\* tokens of a points attribute drawn for the normalizer on its own
MaxTokens == 4

(***************************************************************************)
(* Types: SVGStyle, source documents, path data.                           *)
(***************************************************************************)
\* number -> string, String(n), for the indices the model uses
IntStr(n) ==
  <<"0", "1", "2", "3", "4", "5", "6", "7", "8", "9", "10", "11">>[n + 1]

\* String(n) of a length n given in half units
HalfStr(n) ==
  <<"0", "0.5", "1", "1.5", "2", "2.5", "3", "3.5", "4">>[n + 1]

\* String(n) of an opacity n given in tenths
TenthStr(n) ==
  <<"0", "0.1", "0.2", "0.3", "0.4", "0.5", "0.6", "0.7", "0.8", "0.9", "1">>[n + 1]

DEFAULT_SVG_STYLE ==
  [fillColor |-> "#3b82f6", strokeColor |-> "#1e40af",
   strokeWidth |-> U(2), opacity |-> 10]

\* the style the user edits to: the Fill text field cleared, another stroke
\* colour, width and opacity
EditedStyle ==
  [fillColor |-> "", strokeColor |-> "#00ff00",
   strokeWidth |-> U(1), opacity |-> 5]

StyleSets == {DEFAULT_SVG_STYLE, EditedStyle}

Cmd(c, a) == [c |-> c, a |-> a]

\* One element of a source document, in document order.  geo holds the
\* numeric attributes (None: absent or not a number), d the d attribute of a
\* path (None: absent; Some(<<>>): empty or blank), pts the points
\* attribute split into tokens (None: absent or empty; a token is None when
\* parseFloat gives NaN).
Elem(tag, fill, stroke, geo, d, pts) ==
  [tag |-> tag, fill |-> fill, stroke |-> stroke, geo |-> geo, d |-> d, pts |-> pts]

NoGeo == [x |-> None, y |-> None, width |-> None, height |-> None,
          rx |-> None, ry |-> None, cx |-> None, cy |-> None, r |-> None,
          x1 |-> None, y1 |-> None, x2 |-> None, y2 |-> None]

\* ---- numeric helper ----
num(v) == IF IsSome(v) THEN Get(v) ELSE 0

\* ---- shape -> path: None is JavaScript null ----
rectToPath(el) ==
  LET x == num(el.geo.x)
      y == num(el.geo.y)
      w == num(el.geo.width)
      h == num(el.geo.height)
      rx == num(el.geo.rx)
      ry == num(el.geo.ry)
      rx1 == Min(Or(Or(rx, ry), 0), w \div 2)
      ry1 == Min(Or(Or(ry, rx), 0), h \div 2)
  IN IF w <= 0 \/ h <= 0 THEN None
     ELSE IF rx > 0 \/ ry > 0 THEN
       Some(<< Cmd("M", <<x + rx1, y>>),
               Cmd("H", <<x + w - rx1>>),
               Cmd("A", <<rx1, ry1, 0, 0, 1, x + w, y + ry1>>),
               Cmd("V", <<y + h - ry1>>),
               Cmd("A", <<rx1, ry1, 0, 0, 1, x + w - rx1, y + h>>),
               Cmd("H", <<x + rx1>>),
               Cmd("A", <<rx1, ry1, 0, 0, 1, x, y + h - ry1>>),
               Cmd("V", <<y + ry1>>),
               Cmd("A", <<rx1, ry1, 0, 0, 1, x + rx1, y>>),
               Cmd("Z", <<>>) >>)
     ELSE
       Some(<< Cmd("M", <<x, y>>), Cmd("H", <<x + w>>), Cmd("V", <<y + h>>),
               Cmd("H", <<x>>), Cmd("Z", <<>>) >>)

\* A faulty variant of circleToPath: only a negative radius is degenerate.
circleToPathZeroRadius(el) ==
  LET cx == num(el.geo.cx)
      cy == num(el.geo.cy)
      r == num(el.geo.r)
  IN IF r < 0 THEN None
     ELSE Some(<< Cmd("M", <<cx - r, cy>>),
                  Cmd("A", <<r, r, 0, 1, 0, cx + r, cy>>),
                  Cmd("A", <<r, r, 0, 1, 0, cx - r, cy>>),
                  Cmd("Z", <<>>) >>)

circleToPath(el) ==
  LET cx == num(el.geo.cx)
      cy == num(el.geo.cy)
      r == num(el.geo.r)
  IN IF r <= 0 THEN None
     ELSE Some(<< Cmd("M", <<cx - r, cy>>),
                  Cmd("A", <<r, r, 0, 1, 0, cx + r, cy>>),
                  Cmd("A", <<r, r, 0, 1, 0, cx - r, cy>>),
                  Cmd("Z", <<>>) >>)

ellipseToPath(el) ==
  LET cx == num(el.geo.cx)
      cy == num(el.geo.cy)
      rx == num(el.geo.rx)
      ry == num(el.geo.ry)
  IN IF rx <= 0 \/ ry <= 0 THEN None
     ELSE Some(<< Cmd("M", <<cx - rx, cy>>),
                  Cmd("A", <<rx, ry, 0, 1, 0, cx + rx, cy>>),
                  Cmd("A", <<rx, ry, 0, 1, 0, cx - rx, cy>>),
                  Cmd("Z", <<>>) >>)

lineToPath(el) ==
  Some(<< Cmd("M", <<num(el.geo.x1), num(el.geo.y1)>>),
          Cmd("L", <<num(el.geo.x2), num(el.geo.y2)>>) >>)

\* A faulty variant of PairsFrom: after a pair that is not finite the next
\* pair starts one token later, not two.
RECURSIVE PairsResyncing(_, _)
PairsResyncing(a, i) ==
  IF i + 1 > Len(a) THEN <<>>
  ELSE IF IsSome(a[i]) /\ IsSome(a[i + 1])
       THEN <<(<<Get(a[i]), Get(a[i + 1])>>)>> \o PairsResyncing(a, i + 2)
       ELSE PairsResyncing(a, i + 1)

\* the pairs (a[i], a[i+1]) for even 0-based i with i+1 < a.length, both finite
RECURSIVE PairsFrom(_, _)
PairsFrom(a, i) ==
  IF i + 1 > Len(a) THEN <<>>
  ELSE IF IsSome(a[i]) /\ IsSome(a[i + 1])
       THEN <<(<<Get(a[i]), Get(a[i + 1])>>)>> \o PairsFrom(a, i + 2)
       ELSE PairsFrom(a, i + 2)

pointsToArray(pts) == IF ~IsSome(pts) THEN <<>> ELSE PairsFrom(Get(pts), 1)

\* "M " + pts.map(([x, y]) => `${x} ${y}`).join(" L ")
PolyCmds(pts) ==
  [j \in 1..Len(pts) |-> Cmd(IF j = 1 THEN "M" ELSE "L", pts[j])]

polylineToPath(el) ==
  LET pts == pointsToArray(el.pts)
  IN IF Len(pts) = 0 THEN None ELSE Some(PolyCmds(pts))

polygonToPath(el) ==
  LET pts == pointsToArray(el.pts)
  IN IF Len(pts) = 0 THEN None ELSE Some(PolyCmds(pts) \o <<Cmd("Z", <<>>)>>)

\* A faulty variant of ShapeD: the d attribute of a path element is not read.
ShapeDWithoutPath(el) ==
  CASE el.tag = "rect" -> rectToPath(el)
    [] el.tag = "circle" -> circleToPath(el)
    [] el.tag = "ellipse" -> ellipseToPath(el)
    [] el.tag = "line" -> lineToPath(el)
    [] el.tag = "polyline" -> polylineToPath(el)
    [] el.tag = "polygon" -> polygonToPath(el)
    [] OTHER -> None

\* the tag dispatch of normalizeSVGToPathOnly: the d of one element
ShapeD(el) ==
  CASE el.tag = "path" -> el.d
    [] el.tag = "rect" -> rectToPath(el)
    [] el.tag = "circle" -> circleToPath(el)
    [] el.tag = "ellipse" -> ellipseToPath(el)
    [] el.tag = "line" -> lineToPath(el)
    [] el.tag = "polyline" -> polylineToPath(el)
    [] el.tag = "polygon" -> polygonToPath(el)
    [] OTHER -> None

\* if (d && d.trim())
Eligible(el) == IsSome(ShapeD(el)) /\ Get(ShapeD(el)) # <<>>

\* A faulty variant of PathAttrs: every emitted path is closed with a Z.
PathAttrsClosing(el, st, pathIdx) ==
  << <<"d", Get(ShapeD(el)) \o <<Cmd("Z", <<>>)>> >>,
     <<"fill", IF el.fill = Some("none") THEN "none" ELSE st.fillColor>> >>
  \o (IF el.stroke = Some("none")
      THEN << <<"stroke", "none">> >>
      ELSE << <<"stroke", st.strokeColor>>,
              <<"stroke-width", HalfStr(st.strokeWidth)>> >>)
  \o << <<"opacity", TenthStr(st.opacity)>>,
        <<"data-svg-ext-path-idx", IntStr(pathIdx)>> >>

\* A faulty variant of PathAttrs: the element's own fill and stroke are not
\* looked at.
PathAttrsIgnoringNone(el, st, pathIdx) ==
  << <<"d", Get(ShapeD(el))>>,
     <<"fill", st.fillColor>>,
     <<"stroke", st.strokeColor>>,
     <<"stroke-width", HalfStr(st.strokeWidth)>>,
     <<"opacity", TenthStr(st.opacity)>>,
     <<"data-svg-ext-path-idx", IntStr(pathIdx)>> >>

\* the attributes set on one emitted path, in the order they are set
PathAttrs(el, st, pathIdx) ==
  << <<"d", Get(ShapeD(el))>>,
     <<"fill", IF el.fill = Some("none") THEN "none" ELSE st.fillColor>> >>
  \o (IF el.stroke = Some("none")
      THEN << <<"stroke", "none">> >>
      ELSE << <<"stroke", st.strokeColor>>,
              <<"stroke-width", HalfStr(st.strokeWidth)>> >>)
  \o << <<"opacity", TenthStr(st.opacity)>>,
        <<"data-svg-ext-path-idx", IntStr(pathIdx)>> >>

\* A faulty variant of EmitFrom: every element uses up an index, emitted or
\* not.
RECURSIVE EmitCountingSkipped(_, _, _, _)
EmitCountingSkipped(elems, i, pathIdx, st) ==
  IF i > Len(elems) THEN <<>>
  ELSE IF Eligible(elems[i])
       THEN <<PathAttrs(elems[i], st, pathIdx)>>
            \o EmitCountingSkipped(elems, i + 1, pathIdx + 1, st)
       ELSE EmitCountingSkipped(elems, i + 1, pathIdx + 1, st)

\* the forEach over inSvg.querySelectorAll("*"): the paths emitted for the
\* elements from position i on, pathIdx being the running index
RECURSIVE EmitFrom(_, _, _, _)
EmitFrom(elems, i, pathIdx, st) ==
  IF i > Len(elems) THEN <<>>
  ELSE IF Eligible(elems[i])
       THEN <<PathAttrs(elems[i], st, pathIdx)>>
            \o EmitFrom(elems, i + 1, pathIdx + 1, st)
       ELSE EmitFrom(elems, i + 1, pathIdx, st)

DefaultViewBox == <<0, 0, U(24), U(24)>>

\* what parseFloat gives for the text "Infinity": larger than every length
Infinity == 4096

\* A faulty variant of OutViewBox: width and height are not looked at.
OutViewBoxWithoutSize(src) ==
  IF IsSome(src.viewBox) /\ Get(src.viewBox) # <<>> THEN Get(src.viewBox)
  ELSE <<0, 0, U(24), U(24)>>

\* The viewBox of the output root.  A viewBox attribute is None when absent
\* and Some(<<>>) when empty (both falsy for !viewBox); width and height are
\* what parseFloat reads after "px" is removed: None (absent, empty or NaN),
\* Some(Infinity) or Some of a number.
OutViewBox(src) ==
  IF IsSome(src.viewBox) /\ Get(src.viewBox) # <<>> THEN Get(src.viewBox)
  ELSE IF IsSome(src.width) /\ IsSome(src.height)
          /\ Get(src.width) # Infinity /\ Get(src.height) # Infinity
          /\ Get(src.width) > 0 /\ Get(src.height) > 0
       THEN <<0, 0, Get(src.width), Get(src.height)>>
       ELSE DefaultViewBox

\* A source text, parsed: hasSvg says whether querySelector("svg") finds a
\* root; viewBox, width and height are the root's attributes; elems are the
\* root's descendants in document order.
\* The result: svg is the serialized output document (its root attributes
\* and its paths, each a list of attributes) or, with no root, the source
\* text itself (None here: no output document); count is pathIdx.
normalizeSVGToPathOnly(src, st) ==
  IF ~src.hasSvg THEN [svg |-> None, count |-> 0]
  ELSE LET paths == EmitFrom(src.elems, 1, 0, st)
       IN [svg |-> Some([root |-> << <<"xmlns", "http://www.w3.org/2000/svg">>,
                                     <<"viewBox", OutViewBox(src)>>,
                                     <<"preserveAspectRatio", "xMidYMid meet">> >>,
                         paths |-> paths]),
           count |-> Len(paths)]

(***************************************************************************)
(* The documents of the session.  Every uploaded text passed isValidSVG,   *)
(* so it has a root.                                                       *)
(***************************************************************************)
GroupEl == Elem("g", None, None, NoGeo, None, None)

RectEl ==
  Elem("rect", Some("none"), None,
       [NoGeo EXCEPT !.width = Some(U(4)), !.height = Some(U(2))], None, None)

ZeroCircle == Elem("circle", None, None, [NoGeo EXCEPT !.r = Some(0)], None, None)

CircleEl ==
  Elem("circle", None, Some("none"),
       [NoGeo EXCEPT !.cx = Some(U(5)), !.cy = Some(U(5)), !.r = Some(U(3))],
       None, None)

BlankPath == Elem("path", None, None, NoGeo, Some(<<>>), None)

PathEl ==
  Elem("path", None, None, NoGeo,
       Some(<<Cmd("M", <<0, 0>>), Cmd("L", <<U(1), U(1)>>)>>), None)

SrcDoc(elems) ==
  [hasSvg |-> TRUE, viewBox |-> None, width |-> None, height |-> None,
   elems |-> elems]

\* two shapes with skipped elements before and between them
DocTwo == SrcDoc(<<GroupEl, RectEl, ZeroCircle, PathEl>>)
\* one shape
DocOne == SrcDoc(<<CircleEl>>)
\* no representable shape
DocNone == SrcDoc(<<GroupEl, ZeroCircle, BlankPath>>)

Docs == <<DocTwo, DocOne, DocNone>>

(***************************************************************************)
(* The host tree (the Designer API behind the WFElement typings).          *)
(***************************************************************************)
AttrNames ==
  {"d", "fill", "stroke", "stroke-width", "opacity", "data-svg-ext-path-idx",
   "xmlns", "viewBox", "preserveAspectRatio", "data-inline-svg-container"}

\* the capability flags and methods of a WFElement that the code tests
FullCaps ==
  [children |-> TRUE, append |-> TRUE, customAttributes |-> TRUE,
   setAttribute |-> TRUE, setTag |-> TRUE]

NoChildren == [FullCaps EXCEPT !.children = FALSE, !.append = FALSE]
NoAppend == [FullCaps EXCEPT !.append = FALSE]
NoAttrs == [FullCaps EXCEPT !.customAttributes = FALSE, !.setAttribute = FALSE]
NoSetTag == [FullCaps EXCEPT !.setTag = FALSE]

WeakCaps == {NoChildren, NoAttrs, NoSetTag}

\* the elements already on the page, which the user may have selected
PageCaps == <<FullCaps, NoChildren, NoAppend>>

\* the pathTarget sentinel "all"
All == -1

\* A host element.  parent: 0 on the canvas.  by and shape record which
\* apply created the element and for which 0-based position of the
\* normalized paths (history, not read by the program).
HostNode(parent, tag, attrs, caps, by, shape) ==
  [parent |-> parent, tag |-> tag, attrs |-> attrs, caps |-> caps,
   by |-> by, shape |-> shape]

NoAttrsSet == [n \in AttrNames |-> None]

VARIABLES
  designer,   \* the webflow global: "none", "partial" or "ready"
  apiReady,   \* useState apiReady
  uploaded,   \* useState uploaded: the session's SVGItems, newest first
  current,    \* useState current: an item id, 0 for null
  styles,     \* useState styles
  pathTarget, \* useState pathTarget: All or a 0-based index
  autoApply,  \* useState autoApply
  timer,      \* the pending timeouts' closures (applyDebounceRef holds the last)
  wfRefs,     \* the module-level map item id -> WFRef
  hostNodes,  \* the host tree: element k is hostNodes[k]
  procs,      \* the applyIntoWebflow invocations
  started,    \* how many invocations have started
  events,     \* user edits and departures of the host so far
  normRun,    \* normalizeSVGToPathOnly on its own: the arguments src and st,
              \* the result out of a call, the result again of a second one
              \* and the result fed of a call on the text of out
  textRun,    \* the text functions of part_001 on their own: a source text,
              \* the step that fails in the call (if any) and the results
  legacy,     \* one handleApplySVG of part_002: its position and host calls
  indexApp    \* the App component of src/index.tsx: isApplying and its applies

appVars ==
  <<designer, apiReady, uploaded, current, styles, pathTarget, autoApply,
    timer, wfRefs, hostNodes, procs, started, events>>

vars == <<appVars, normRun, textRun, legacy, indexApp>>

MaxItems == MaxEvents

ItemIds == 1..MaxItems
ProcIds == 1..MaxApplies

\* the SVGItem with the given id
ItemOf(id) == uploaded[Len(uploaded) - id + 1]

\* An invocation of applyIntoWebflow.  item, styles, pathTarget: the
\* closure.  ref: wfRefs[item.id] as restyleExistingInWebflow read it.
\* restyled: what restyleExistingInWebflow returned.  todo, i, k: the
\* restyle loop.  container, svgRoot, created, parent, ctx, i: the locals of
\* applySvgIntoWebflow.  notices, issued, rsCalls, updated: history (the
\* notices surfaced, the host calls issued, those issued by
\* restyleExistingInWebflow, the handles it sent updates to, whether an
\* exception was raised).
\* no call of the normalizer on its own
NoRun ==
  [src |-> SrcDoc(<<>>), st |-> DEFAULT_SVG_STYLE, out |-> None, again |-> None,
   fed |-> None]

IdleProc ==
  [pc |-> "idle", outcome |-> "none", item |-> 0, styles |-> DEFAULT_SVG_STYLE,
   pathTarget |-> All, ref |-> None, restyled |-> "none", todo |-> <<>>,
   container |-> 0, svgRoot |-> 0, created |-> <<>>, parent |-> 0, ctx |-> "",
   i |-> 0, k |-> 0, notices |-> <<>>, issued |-> 0, rsCalls |-> 0,
   updated |-> {}, threw |-> FALSE]

\* the App component and the host before the first event
AppStart ==
  /\ apiReady = FALSE
  /\ uploaded = <<>>
  /\ current = 0
  /\ styles = DEFAULT_SVG_STYLE
  /\ pathTarget = All
  /\ autoApply = TRUE
  /\ timer = None
  /\ wfRefs = [id \in ItemIds |-> None]
  /\ hostNodes = [k \in DOMAIN PageCaps |->
                    HostNode(0, Some("div"), NoAttrsSet, PageCaps[k], 0, -1)]
  /\ procs = [p \in ProcIds |-> IdleProc]
  /\ started = 0
  /\ events = 0

Init ==
  /\ designer \in {"none", "partial", "ready"}
  /\ AppStart
  /\ normRun = NoRun
  /\ textRun = <<>>
  /\ legacy = <<>>
  /\ indexApp = <<>>

(***************************************************************************)
(* One applyIntoWebflow invocation.  The operators below take the          *)
(* invocation's record p and the host tree and give the record at the next *)
(* await, or a settled one.  The pc "inserted" stands for the end of       *)
(* applySvgIntoWebflow's loop: the step that reaches it writes wfRefs      *)
(* (Settle).                                                               *)
(***************************************************************************)
hasChildren(nodes, n) == nodes[n].caps.children
canAppend(nodes, n) == nodes[n].caps.children /\ nodes[n].caps.append
canSetAttr(c) == c.customAttributes /\ c.setAttribute

\* webflow.notify(...), not awaited: the notice is surfaced.  The Designer's
\* notify is taken to be present (the typings make it optional and the code
\* skips the call when it is missing).
Notify(p, type) == [p EXCEPT !.notices = Append(@, type)]

\* n more host calls issued
Issued(p, n) == [p EXCEPT !.issued = @ + n]

\* the promise of applyIntoWebflow settles; its locals are gone
Return(p, outcome) ==
  [p EXCEPT !.pc = "done", !.outcome = outcome, !.todo = <<>>, !.parent = 0,
            !.ctx = "", !.i = 0, !.k = 0]

\* a rejection that leaves applyIntoWebflow: its promise rejects
RejectApply(p) == Return(p, "rejected")

\* A faulty variant of CatchApply: no try around applySvgIntoWebflow.
UncaughtApply(p) == Return(p, "rejected")

\* the catch of applyIntoWebflow around applySvgIntoWebflow
CatchApply(p) == Return(Notify(p, "Error"), "fulfilled")

\* A faulty variant of ThrowInApply: the references gathered so far are saved
\* as if the loop had ended.
ThrowInApplyRecording(p) == [p EXCEPT !.pc = "inserted", !.threw = TRUE]

\* an exception inside applySvgIntoWebflow (a throw of appendDomWithTag, an
\* awaited host call that rejects): it reaches the catch
ThrowInApply(p) == CatchApply([p EXCEPT !.threw = TRUE])

\* an awaited setAttribute of restyleExistingInWebflow rejects:
\* applyIntoWebflow awaits restyleExistingInWebflow outside its try
ThrowInRestyle(p) == RejectApply([p EXCEPT !.threw = TRUE])

\* the styles of StyleSets, numbered
StyleSeq == <<DEFAULT_SVG_STYLE, EditedStyle>>
StyleNo(s) == CHOOSE k \in DOMAIN StyleSeq : StyleSeq[k] = s

\* normalizeSVGToPathOnly on the session's documents, tabulated once (the
\* concatenations turn the two function constructors into tuples of values)
NormTable ==
  [d \in DOMAIN Docs |->
     [k \in DOMAIN StyleSeq |-> normalizeSVGToPathOnly(Docs[d], StyleSeq[k])]
     \o <<>>] \o <<>>

\* normalizeSVGToPathOnly(item.svgContent, styles) of invocation p
Norm(p) == NormTable[ItemOf(p.item).doc][StyleNo(p.styles)]

\* attrs["data-svg-ext-path-idx"] = String(i)
WithIdx(attrs, i) ==
  [j \in DOMAIN attrs |->
     IF attrs[j][1] = "data-svg-ext-path-idx"
     THEN <<attrs[j][1], IntStr(i)>> ELSE attrs[j]]

\* the attrs argument of the appendDomWithTag call p is in
AttrsOf(p) ==
  IF p.ctx = "svg" THEN Get(Norm(p).svg).root
  ELSE WithIdx(Get(Norm(p).svg).paths[p.i], p.i - 1)

TagOf(p) == IF p.ctx = "svg" THEN "svg" ELSE "path"

\* v != null && v !== ""
NonEmpty(pair) ==
  IF pair[1] \in {"d", "viewBox"} THEN pair[2] # <<>> ELSE pair[2] # ""

\* A faulty variant of DomOps: the keyword none is skipped like an empty value.
DomOpsSkippingNone(tag, attrs, c) ==
  LET set == SelectSeq(attrs, LAMBDA pair :
                         NonEmpty(pair) /\ (pair[1] \in {"fill", "stroke"} => pair[2] # "none"))
  IN << <<"append", "DOM">> >>
     \o (IF c.setTag THEN << <<"setTag", tag>> >> ELSE <<>>)
     \o (IF canSetAttr(c)
         THEN [j \in 1..Len(set) |-> <<"setAttribute", set[j]>>]
         ELSE <<>>)

\* The host calls of appendDomWithTag(parent, tag, attrs) when append hands
\* out an element with capabilities c, in order.
DomOps(tag, attrs, c) ==
  LET set == SelectSeq(attrs, NonEmpty)
  IN << <<"append", "DOM">> >>
     \o (IF c.setTag THEN << <<"setTag", tag>> >> ELSE <<>>)
     \o (IF canSetAttr(c)
         THEN [j \in 1..Len(set) |-> <<"setAttribute", set[j]>>]
         ELSE <<>>)

\* The host calls of getInsertionContainer's fresh container.
RootOps(c) ==
  << <<"elementPresets", "DOM">>, <<"addElement", "root">> >>
  \o (IF c.setTag THEN << <<"setTag", "div">> >> ELSE <<>>)
  \o (IF canSetAttr(c)
      THEN << <<"setAttribute", <<"data-inline-svg-container", "true">> >> >>
      ELSE <<>>)

\* the element after the calls ops[1..n] took effect on it
Built(parent, c, by, shape, ops, n) ==
  LET tags == {j \in 1..n : ops[j][1] = "setTag"}
      sets(a) == {j \in 1..n : ops[j][1] = "setAttribute" /\ ops[j][2][1] = a}
  IN HostNode(parent,
              IF tags = {} THEN None ELSE Some(ops[CHOOSE j \in tags : TRUE][2]),
              [a \in AttrNames |->
                 IF sets(a) = {} THEN None
                 ELSE Some(ops[CHOOSE j \in sets(a) : \A m \in sets(a) : m <= j][2][2])],
              c, by, shape)

\* appendDomWithTag(parent, tag, attrs) up to its first await
BeginAppend(p, parent, ctx, nodes) ==
  IF ~canAppend(nodes, parent) THEN ThrowInApply(p)
  ELSE [p EXCEPT !.pc = "append", !.parent = parent, !.ctx = ctx]

\* A faulty variant of NextPath: the loop does not skip the paths that
\* pathTarget leaves out.
NextPathUnfiltered(p, nodes) ==
  LET n == Len(Get(Norm(p).svg).paths)
  IN IF p.i > n THEN [p EXCEPT !.pc = "inserted"]
     ELSE BeginAppend(p, p.svgRoot, "path", nodes)

\* the for loop over pathNodes from 1-based position p.i on
NextPath(p, nodes) ==
  LET n == Len(Get(Norm(p).svg).paths)
      sel == {j \in p.i..n : p.pathTarget = All \/ j - 1 = p.pathTarget}
  IN IF sel = {} THEN [p EXCEPT !.pc = "inserted"]
     ELSE BeginAppend([p EXCEPT !.i = CHOOSE j \in sel : \A m \in sel : j <= m],
                      p.svgRoot, "path", nodes)

\* appendDomWithTag returns domEl to applySvgIntoWebflow
ReturnDomEl(p, domEl, nodes) ==
  IF p.ctx = "svg"
  THEN NextPath([p EXCEPT !.svgRoot = domEl, !.i = 1], nodes)
  ELSE NextPath([p EXCEPT !.created = Append(@, domEl), !.i = @ + 1], nodes)

\* getInsertionContainer returns: applySvgIntoWebflow creates the <svg> root
GotContainer(p, c, nodes) ==
  BeginAppend([p EXCEPT !.container = c], c, "svg", nodes)

\* getInsertionContainer after getSelectedElement settled with sel (0: null)
AfterSelected(p, sel, nodes) ==
  IF sel # 0 /\ hasChildren(nodes, sel) THEN GotContainer(p, sel, nodes)
  ELSE [p EXCEPT !.pc = "newContainer"]

\* A faulty variant of applySvgIntoWebflow: no test of count.
InsertWithoutCountTest(p) == Issued([p EXCEPT !.pc = "getSelected"], 1)

\* applySvgIntoWebflow up to its first await
applySvgIntoWebflow(p) ==
  IF Norm(p).count = 0 THEN Return(p, "fulfilled")
  ELSE Issued([p EXCEPT !.pc = "getSelected"], 1)

\* the updates of updateOne, in order
RestyleAttrs(st) ==
  << <<"opacity", TenthStr(st.opacity)>>, <<"fill", st.fillColor>>,
     <<"stroke", st.strokeColor>>, <<"stroke-width", HalfStr(st.strokeWidth)>> >>

\* the handles restyleExistingInWebflow visits
RestyleTargets(ref, target) ==
  IF target = All THEN ref.paths
  ELSE IF target + 1 \in DOMAIN ref.paths THEN <<ref.paths[target + 1]>>
  ELSE <<>>

\* a setAttribute of updateOne issued on handle p.todo[i]
AwaitRestyle(p, i, k) ==
  [p EXCEPT !.pc = "restyle", !.i = i, !.k = k, !.issued = @ + 1,
            !.rsCalls = @ + 1, !.updated = @ \cup {p.todo[i]}]

\* restyleExistingInWebflow from handle i on: updateOne returns at once for a
\* handle without custom attributes; after the last one it notifies and
\* returns true, and applyIntoWebflow returns
RestyleNext(p, i, nodes) ==
  LET sel == {j \in i..Len(p.todo) : canSetAttr(nodes[p.todo[j]].caps)}
  IN IF sel = {}
     THEN Return(Notify([p EXCEPT !.restyled = "true"], "Success"), "fulfilled")
     ELSE AwaitRestyle(p, CHOOSE j \in sel : \A m \in sel : j <= m, 1)

\* restyleExistingInWebflow up to its first await (p.ref is wfRefs[item.id])
restyleExistingInWebflow(p, nodes) ==
  IF ~IsSome(p.ref) THEN [p EXCEPT !.restyled = "false"]
  ELSE RestyleNext([p EXCEPT !.todo = RestyleTargets(Get(p.ref), p.pathTarget)],
                   1, nodes)

\* checkApiReady()
ApiOk == designer = "ready"

\* A faulty variant of applyIntoWebflow: one reference for all items instead
\* of a map keyed by item.id.
applyIntoWebflowOneRef(cl, nodes) ==
  LET held == {it \in ItemIds : IsSome(wfRefs[it])}
      p == [IdleProc EXCEPT !.item = cl.item, !.styles = cl.styles,
                            !.pathTarget = cl.pathTarget, !.pc = "run",
                            !.outcome = "pending",
                            !.ref = IF held = {} THEN None
                                    ELSE wfRefs[CHOOSE it \in held : TRUE]]
      r == restyleExistingInWebflow(p, nodes)
  IN IF r.restyled = "false" THEN applySvgIntoWebflow(r) ELSE r

\* applyIntoWebflow up to its first await, as the closure cl = (current,
\* styles, pathTarget) of the render that made it
applyIntoWebflow(cl, nodes) ==
  LET p == [IdleProc EXCEPT !.item = cl.item, !.styles = cl.styles,
                            !.pathTarget = cl.pathTarget, !.pc = "run",
                            !.outcome = "pending", !.ref = wfRefs[cl.item]]
      r == restyleExistingInWebflow(p, nodes)
  IN IF ~ApiOk
     THEN Return(IF designer = "partial" THEN Notify(p, "Warning") ELSE p,
                 "fulfilled")
     ELSE IF r.restyled = "false" THEN applySvgIntoWebflow(r)
     ELSE r

\* the WFRef saved at the end of applySvgIntoWebflow
RefOf(p) == [container |-> p.container, svgRoot |-> p.svgRoot, paths |-> p.created]

\* The step of invocation id to record q: an invocation that reached the end
\* of applySvgIntoWebflow saves its references and notifies.
Settle(id, q) ==
  IF q.pc = "inserted"
  THEN /\ wfRefs' = [wfRefs EXCEPT ![q.item] = Some(RefOf(q))]
       /\ procs' = [procs EXCEPT ![id] = Return(Notify(q, "Success"), "fulfilled")]
  ELSE /\ wfRefs' = wfRefs
       /\ procs' = [procs EXCEPT ![id] = q]

(***************************************************************************)
(* The host performs the calls an invocation awaits.  The calls that build *)
(* one element (appendDomWithTag, the fresh container) are awaited one     *)
(* after the other on an element no other invocation holds; they are one   *)
(* step, which chooses the capabilities c of the element and the call f    *)
(* that rejects (0: none).                                                 *)
(***************************************************************************)
Awaiting(id, pc) == procs[id].pc = pc

Cost(c, f) == (IF c = FullCaps THEN 0 ELSE 1) + (IF f = 0 THEN 0 ELSE 1)

\* the calls that may reject, of n calls: the first or the last; 0 is none
FailPoints(n) == {0, 1, n}

\* webflow.getSelectedElement() settles: null or an element of the page
HostSelected(id) ==
  /\ Awaiting(id, "getSelected")
  /\ \E sel \in 0..Len(PageCaps) :
       Settle(id, AfterSelected(procs[id], sel, hostNodes))
  /\ UNCHANGED <<textRun, legacy, indexApp, normRun,
                 designer, apiReady, uploaded, current, styles, pathTarget,
                 autoApply, timer, hostNodes, started, events>>

\* getInsertionContainer creates a fresh container: elementPresets.DOM,
\* addElement, setTag, setAttribute
HostNewContainer(id) ==
  /\ Awaiting(id, "newContainer")
  /\ \E c \in {FullCaps} \cup WeakCaps :
       \E f \in FailPoints(Len(RootOps(c))) :
         LET p == procs[id]
             ops == RootOps(c)
             done == IF f = 0 THEN Len(ops) ELSE f - 1
             root == Len(hostNodes) + 1
             nodes == IF done < 2 THEN hostNodes
                      ELSE Append(hostNodes, Built(0, c, id, -1, ops, done))
         IN /\ events + Cost(c, f) <= MaxEvents
            /\ f \in {1, 2} => c = FullCaps
            /\ events' = events + Cost(c, f)
            /\ hostNodes' = nodes
            /\ Settle(id, IF f # 0 THEN ThrowInApply(Issued(p, f))
                          ELSE GotContainer(Issued(p, Len(ops)), root, nodes))
  /\ UNCHANGED <<textRun, legacy, indexApp, normRun,
                 designer, apiReady, uploaded, current, styles, pathTarget,
                 autoApply, timer, started>>

\* appendDomWithTag: parent.append, setTag, setAttribute for each attribute
HostAppendDom(id) ==
  /\ Awaiting(id, "append")
  /\ \E c \in {FullCaps} \cup WeakCaps :
       \E f \in FailPoints(Len(DomOps(TagOf(procs[id]), AttrsOf(procs[id]), c))) :
         LET p == procs[id]
             ops == DomOps(TagOf(p), AttrsOf(p), c)
             done == IF f = 0 THEN Len(ops) ELSE f - 1
             domEl == Len(hostNodes) + 1
             shape == IF p.ctx = "path" THEN p.i - 1 ELSE -1
             nodes == IF done < 1 THEN hostNodes
                      ELSE Append(hostNodes,
                                  Built(p.parent, c, id, shape, ops, done))
         IN /\ events + Cost(c, f) <= MaxEvents
            /\ f = 1 => c = FullCaps
            /\ events' = events + Cost(c, f)
            /\ hostNodes' = nodes
            /\ Settle(id, IF f # 0 THEN ThrowInApply(Issued(p, f))
                          ELSE ReturnDomEl(Issued(p, Len(ops)), domEl, nodes))
  /\ UNCHANGED <<textRun, legacy, indexApp, normRun,
                 designer, apiReady, uploaded, current, styles, pathTarget,
                 autoApply, timer, started>>

SetAttrOf(nodes, n, pair) == [nodes EXCEPT ![n].attrs[pair[1]] = Some(pair[2])]

\* el.setAttribute(...) of updateOne settles
HostRestyle(id) ==
  /\ Awaiting(id, "restyle")
  /\ LET p == procs[id]
         upd == RestyleAttrs(p.styles)
         nodes == SetAttrOf(hostNodes, p.todo[p.i], upd[p.k])
     IN /\ hostNodes' = nodes
        /\ Settle(id, IF p.k < Len(upd) THEN AwaitRestyle(p, p.i, p.k + 1)
                      ELSE RestyleNext(p, p.i + 1, nodes))
  /\ UNCHANGED <<textRun, legacy, indexApp, normRun,
                 designer, apiReady, uploaded, current, styles, pathTarget,
                 autoApply, timer, started, events>>

\* the awaited getSelectedElement or setAttribute of updateOne rejects
HostRejects(id) ==
  /\ procs[id].pc \in {"getSelected", "restyle"}
  /\ events < MaxEvents
  /\ events' = events + 1
  /\ Settle(id, IF procs[id].pc = "restyle" THEN ThrowInRestyle(procs[id])
                ELSE ThrowInApply(procs[id]))
  /\ UNCHANGED <<textRun, legacy, indexApp, normRun,
                 designer, apiReady, uploaded, current, styles, pathTarget,
                 autoApply, timer, hostNodes, started>>

(***************************************************************************)
(* The App component.                                                      *)
(***************************************************************************)
\* A faulty variant of Debounce: the effect has no cleanup and does not clear
\* the timeout applyDebounceRef holds, so the earlier timeout stays pending.
DebounceWithoutClear(cur, st, target, auto) ==
  IF ~auto \/ cur = 0 THEN timer
  ELSE timer \o <<[item |-> cur, styles |-> st, pathTarget |-> target]>>

\* The auto-apply effect after a render with the given state: the cleanup
\* clears the pending timeout, the effect sets a new one whose callback
\* closes over this render's applyIntoWebflow.
Debounce(cur, st, target, auto) ==
  IF ~auto \/ cur = 0 THEN None
  ELSE Some([item |-> cur, styles |-> st, pathTarget |-> target])

\* a new invocation of applyIntoWebflow with closure cl
StartApply(cl) ==
  /\ started < MaxApplies
  /\ started' = started + 1
  /\ apiReady' = ApiOk
  /\ Settle(started + 1, applyIntoWebflow(cl, hostNodes))

\* pushToMemory, from the file, drop and code handlers
pushToMemory(d) ==
  /\ events < MaxEvents
  /\ events' = events + 1
  /\ LET id == Len(uploaded) + 1
         item == [id |-> id, doc |-> d,
                  pathCount |-> NormTable[d][StyleNo(DEFAULT_SVG_STYLE)].count]
     IN /\ uploaded' = <<item>> \o uploaded
        /\ current' = id
        /\ styles' = DEFAULT_SVG_STYLE
        /\ pathTarget' = All
        /\ timer' = Debounce(id, DEFAULT_SVG_STYLE, All, autoApply)
  /\ UNCHANGED <<textRun, legacy, indexApp, normRun,
                 designer, apiReady, autoApply, wfRefs, hostNodes, procs,
                 started>>

\* a gallery button: setCurrent(it)
GalleryClick(id) ==
  /\ events < MaxEvents
  /\ events' = events + 1
  /\ id \in 1..Len(uploaded)
  /\ id # current
  /\ current' = id
  /\ timer' = Debounce(id, styles, pathTarget, autoApply)
  /\ UNCHANGED <<textRun, legacy, indexApp, normRun,
                 designer, apiReady, uploaded, styles, pathTarget, autoApply,
                 wfRefs, hostNodes, procs,
                 started>>

\* the colour, width and opacity inputs: setStyles, taking the styles from
\* one StyleSet to another (the burst of input events in between is one
\* edit)
SetStyles(s) ==
  /\ events < MaxEvents
  /\ events' = events + 1
  /\ current # 0
  /\ s # styles
  /\ styles' = s
  /\ timer' = Debounce(current, s, pathTarget, autoApply)
  /\ UNCHANGED <<textRun, legacy, indexApp, normRun,
                 designer, apiReady, uploaded, current, pathTarget, autoApply,
                 wfRefs, hostNodes, procs,
                 started>>

\* the target select: "all" or one of the current item's pathCount options
SetPathTarget(v) ==
  /\ events < MaxEvents
  /\ events' = events + 1
  /\ current # 0
  /\ v \in {All} \cup 0..(ItemOf(current).pathCount - 1)
  /\ v # pathTarget
  /\ pathTarget' = v
  /\ timer' = Debounce(current, styles, v, autoApply)
  /\ UNCHANGED <<textRun, legacy, indexApp, normRun,
                 designer, apiReady, uploaded, current, styles, autoApply,
                 wfRefs, hostNodes, procs,
                 started>>

\* the Reset button
resetStyles ==
  /\ events < MaxEvents
  /\ events' = events + 1
  /\ current # 0
  /\ styles' = DEFAULT_SVG_STYLE
  /\ pathTarget' = All
  /\ timer' = Debounce(current, DEFAULT_SVG_STYLE, All, autoApply)
  /\ UNCHANGED <<textRun, legacy, indexApp, normRun,
                 designer, apiReady, uploaded, current, autoApply, wfRefs,
                 hostNodes, procs,
                 started>>

\* the Auto-apply checkbox
ToggleAutoApply ==
  /\ events < MaxEvents
  /\ events' = events + 1
  /\ current # 0
  /\ autoApply' = ~autoApply
  /\ timer' = Debounce(current, styles, pathTarget, ~autoApply)
  /\ UNCHANGED <<textRun, legacy, indexApp, normRun,
                 designer, apiReady, uploaded, current, styles, pathTarget,
                 wfRefs, hostNodes, procs,
                 started>>

\* the debounce timeout fires: void applyIntoWebflow()
TimerFires ==
  /\ IsSome(timer)
  /\ timer' = None
  /\ StartApply(Get(timer))
  /\ UNCHANGED <<textRun, legacy, indexApp, normRun,
                 designer, uploaded, current, styles, pathTarget, autoApply,
                 hostNodes, events>>

\* the Apply to Webflow button (disabled unless apiReady)
ClickApply ==
  /\ current # 0
  /\ apiReady
  /\ StartApply([item |-> current, styles |-> styles, pathTarget |-> pathTarget])
  /\ UNCHANGED <<textRun, legacy, indexApp, normRun,
                 designer, uploaded, current, styles, pathTarget, autoApply,
                 timer, hostNodes, events>>

\* the 1200 ms poll: checkApiReady()
Tick ==
  /\ apiReady # ApiOk
  /\ apiReady' = ApiOk
  /\ UNCHANGED <<textRun, legacy, indexApp, normRun,
                 designer, uploaded, current, styles, pathTarget, autoApply,
                 timer, wfRefs, hostNodes, procs, started, events>>

\* the Designer finishes loading its API
DesignerLoads ==
  /\ designer # "ready"
  /\ designer' = "ready"
  /\ UNCHANGED <<textRun, legacy, indexApp, normRun,
                 apiReady, uploaded, current, styles, pathTarget, autoApply,
                 timer, wfRefs, hostNodes, procs, started, events>>

Next ==
  \/ \E id \in ProcIds :
       \/ HostSelected(id)
       \/ HostNewContainer(id)
       \/ HostAppendDom(id)
       \/ HostRestyle(id)
       \/ HostRejects(id)
  \/ \E d \in DOMAIN Docs : pushToMemory(d)
  \/ \E id \in ItemIds : GalleryClick(id)
  \/ \E s \in StyleSets : SetStyles(s)
  \/ \E v \in {All} \cup 0..5 : SetPathTarget(v)
  \/ resetStyles
  \/ ToggleAutoApply
  \/ TimerFires
  \/ ClickApply
  \/ Tick
  \/ DesignerLoads

Spec == Init /\ [][Next]_vars

(***************************************************************************)
(* A session that is under way: two files were dropped together (DocOne,   *)
(* then DocTwo), the timeout of the newer one fired and its paths were     *)
(* inserted under the first page element; the insertion has settled.  The  *)
(* invocations and the events are counted from here.                       *)
(***************************************************************************)
\* the elements that insertion created: the <svg> root and a <path> for each
\* normalized path, in the order of their creation
InsertedNodes(doc, container) ==
  LET out == Get(NormTable[doc][StyleNo(DEFAULT_SVG_STYLE)].svg)
      root == Len(PageCaps) + 1
  IN <<Built(container, FullCaps, 0, -1, DomOps("svg", out.root, FullCaps),
             Len(DomOps("svg", out.root, FullCaps)))>>
     \o [k \in DOMAIN out.paths |->
           LET ops == DomOps("path", WithIdx(out.paths[k], k - 1), FullCaps)
           IN Built(root, FullCaps, 0, k - 1, ops, Len(ops))]

InitSession ==
  /\ designer = "ready"
  /\ apiReady = TRUE
  /\ uploaded = [j \in 1..2 |->
                   [id |-> 3 - j, doc |-> j,
                    pathCount |-> NormTable[j][StyleNo(DEFAULT_SVG_STYLE)].count]]
  /\ current = 2
  /\ styles = DEFAULT_SVG_STYLE
  /\ pathTarget = All
  /\ autoApply = TRUE
  /\ timer = None
  /\ hostNodes = [k \in DOMAIN PageCaps |->
                    HostNode(0, Some("div"), NoAttrsSet, PageCaps[k], 0, -1)]
                 \o InsertedNodes(1, 1)
  /\ wfRefs = [id \in ItemIds |->
                 IF id = 2
                 THEN Some([container |-> 1, svgRoot |-> Len(PageCaps) + 1,
                            paths |-> [k \in 1..NormTable[1][StyleNo(DEFAULT_SVG_STYLE)].count
                                         |-> Len(PageCaps) + 1 + k]])
                 ELSE None]
  /\ procs = [p \in ProcIds |-> IdleProc]
  /\ started = 0
  /\ events = 0
  /\ normRun = NoRun
  /\ textRun = <<>>
  /\ legacy = <<>>
  /\ indexApp = <<>>

\* the steps of Next that a loaded Designer leaves possible, with uploads up
\* to MaxItems items
NextSession ==
  \/ \E id \in ProcIds :
       \/ HostSelected(id)
       \/ HostNewContainer(id)
       \/ HostAppendDom(id)
       \/ HostRestyle(id)
       \/ HostRejects(id)
  \/ \E d \in DOMAIN Docs : Len(uploaded) < MaxItems /\ pushToMemory(d)
  \/ \E id \in ItemIds : GalleryClick(id)
  \/ \E s \in StyleSets : SetStyles(s)
  \/ \E v \in {All} \cup 0..5 : SetPathTarget(v)
  \/ resetStyles
  \/ ToggleAutoApply
  \/ TimerFires
  \/ ClickApply

SpecSession == InitSession /\ [][NextSession]_vars

(***************************************************************************)
(* normalizeSVGToPathOnly on its own: the source document and the styles   *)
(* are drawn at the start, one step computes the result.                   *)
(***************************************************************************)
LineEl == Elem("line", None, None, [NoGeo EXCEPT !.x2 = Some(U(3))], None, None)

\* the elements the source documents are made of: three that are skipped
\* (an unsupported tag, a degenerate shape, a path with a blank d) and four
\* that are emitted
ElemPool == {GroupEl, ZeroCircle, BlankPath, RectEl, CircleEl, PathEl, LineEl}

RECURSIVE SeqsUpTo(_, _)
SeqsUpTo(S, n) ==
  IF n = 0 THEN {<<>>}
  ELSE LET shorter == SeqsUpTo(S, n - 1)
       IN shorter \cup {Append(q, e) : q \in shorter, e \in S}

\* a text without an <svg> root
NoSvgDoc == [SrcDoc(<<PathEl>>) EXCEPT !.hasSvg = FALSE]

SourceDocs == {SrcDoc(elems) : elems \in SeqsUpTo(ElemPool, MaxElems)} \cup {NoSvgDoc}

\* The values of a numeric attribute: absent or not a number, negative, zero
\* and two positive ones; of a coordinate; of a points token; of fill and
\* stroke.
Lens == {None, Some(-U(1)), Some(0), Some(U(1)), Some(U(3))}
Coords == {None, Some(U(3))}
Tokens == {None, Some(0), Some(U(1)), Some(-U(2))}
Paints == {None, Some("none"), Some("red")}

RectEls ==
  {Elem("rect", None, None,
        [NoGeo EXCEPT !.x = x, !.y = y, !.width = w, !.height = h,
                      !.rx = rx, !.ry = ry], None, None) :
     x \in Coords, y \in Coords, w \in Lens, h \in Lens, rx \in Lens, ry \in Lens}

CircleEls ==
  {Elem("circle", None, None, [NoGeo EXCEPT !.cx = cx, !.cy = cy, !.r = r],
        None, None) : cx \in Coords, cy \in Coords, r \in Lens}

EllipseEls ==
  {Elem("ellipse", None, None,
        [NoGeo EXCEPT !.cx = cx, !.cy = cy, !.rx = rx, !.ry = ry], None, None) :
     cx \in Coords, cy \in Coords, rx \in Lens, ry \in Lens}

LineEls ==
  {Elem("line", None, None,
        [NoGeo EXCEPT !.x1 = x1, !.y1 = y1, !.x2 = x2, !.y2 = y2], None, None) :
     x1 \in Coords, y1 \in Coords, x2 \in Coords, y2 \in Coords}

PointsAttrs == {None} \cup {Some(t) : t \in SeqsUpTo(Tokens, MaxTokens) \ {<<>>}}

PolyEls ==
  {Elem(tag, None, None, NoGeo, None, pts) :
     tag \in {"polyline", "polygon"}, pts \in PointsAttrs}

PathEls == {Elem("path", None, None, NoGeo, d, None) : d \in {None, BlankPath.d, PathEl.d}}

\* shapes with every combination of fill and stroke
PaintedEls ==
  {[el EXCEPT !.fill = f, !.stroke = s] :
     el \in {RectEl, CircleEl, PathEl, LineEl}, f \in Paints, s \in Paints}

ShapeEls ==
  RectEls \cup CircleEls \cup EllipseEls \cup LineEls \cup PolyEls \cup PathEls
  \cup PaintedEls

\* the documents with one shape element, alone or inside a group
ShapeDocs ==
  {SrcDoc(<<el>>) : el \in ShapeEls} \cup {SrcDoc(<<GroupEl, el>>) : el \in PaintedEls}

\* a StyleSet whose two colours are the keyword none, with width and opacity 0
NoPaintStyle ==
  [fillColor |-> "none", strokeColor |-> "none", strokeWidth |-> 0, opacity |-> 0]

NormStyles == StyleSets \cup {NoPaintStyle}

InitNormalize ==
  /\ designer = "none"
  /\ AppStart
  /\ normRun \in {[src |-> d, st |-> s, out |-> None, again |-> None,
                     fed |-> None] :
                    d \in SourceDocs \cup ShapeDocs, s \in NormStyles}
  /\ textRun = <<>>
  /\ legacy = <<>>
  /\ indexApp = <<>>

\* A faulty variant of Call: pathIdx is kept outside the function and goes on
\* from where the call before left it.
CallSharingIndex(run) ==
  LET r == normalizeSVGToPathOnly(run.src, run.st)
      base == IF IsSome(run.out) THEN Get(run.out).count ELSE 0
  IN IF ~IsSome(r.svg) THEN r
     ELSE [svg |-> Some([Get(r.svg) EXCEPT
                           !.paths = EmitFrom(run.src.elems, 1, base, run.st)]),
           count |-> base + r.count]

\* a call of normalizeSVGToPathOnly in the session run: the parser, the
\* output document, the serializer and pathIdx are made anew in each call,
\* so the result is that of the function on the two arguments
Call(run) == normalizeSVGToPathOnly(run.src, run.st)

Normalize ==
  /\ normRun.out = None
  /\ normRun' = [normRun EXCEPT !.out = Some(Call(normRun))]
  /\ UNCHANGED <<appVars, textRun, legacy, indexApp>>

\* a second call with the same arguments, after the first returned
NormalizeAgain ==
  /\ normRun.out # None
  /\ normRun.again = None
  /\ normRun' = [normRun EXCEPT !.again = Some(Call(normRun))]
  /\ UNCHANGED <<appVars, textRun, legacy, indexApp>>

\* The text out.svg of a result, parsed as a source: with a root, the
\* output document (its viewBox, its paths with their d, fill and stroke);
\* without one, the source text itself, which the function returned.
AsSource(src, out) ==
  IF ~IsSome(out.svg) THEN src
  ELSE [hasSvg |-> TRUE,
        viewBox |-> Some(OutViewBox(src)),
        width |-> None,
        height |-> None,
        elems |-> [k \in DOMAIN Get(out.svg).paths |->
                     LET a == Get(out.svg).paths[k]
                     IN Elem("path",
                             Some(a[CHOOSE j \in DOMAIN a : a[j][1] = "fill"][2]),
                             Some(a[CHOOSE j \in DOMAIN a : a[j][1] = "stroke"][2]),
                             NoGeo,
                             Some(a[CHOOSE j \in DOMAIN a : a[j][1] = "d"][2]),
                             None)]]

\* a call on the output of the first call, with the same styles
NormalizeOutput ==
  /\ normRun.out # None
  /\ normRun.fed = None
  /\ normRun' =
       [normRun EXCEPT
          !.fed = Some(Call([normRun EXCEPT
                               !.src = AsSource(normRun.src, Get(normRun.out))]))]
  /\ UNCHANGED <<appVars, textRun, legacy, indexApp>>

NextNormalize == Normalize \/ NormalizeAgain \/ NormalizeOutput

SpecNormalize == InitNormalize /\ [][NextNormalize]_vars

(***************************************************************************)
(* The text functions on their own: isValidSVG (of part_001 and of         *)
(* src/index.tsx), applyStylesToSVGForPreview and normalizeSVGToPathOnly   *)
(* with their try/catch.  A text is its parsed document together with      *)
(* parseError (the parsed document holds a parsererror node) and the two   *)
(* substrings index.tsx looks for: open is "<svg", close is "</svg>".      *)
(***************************************************************************)
\* the root attributes of a document: a viewBox absent, empty or given,
\* width and height absent, negative, zero, positive or infinite
ViewBoxes == {None, Some(<<>>), Some(<<0, 0, U(2), U(2)>>)}
RootLens == Lens \cup {Some(Infinity)}

TextDocs ==
  {SrcDoc(elems) : elems \in SeqsUpTo({GroupEl, LineEl, RectEl, CircleEl}, 2)}
  \cup {[DocOne EXCEPT !.viewBox = vb, !.width = w, !.height = h] :
          vb \in ViewBoxes, w \in RootLens, h \in RootLens}
  \cup {NoSvgDoc}

\* a text with a root element svg holds "<svg"; "<svg/>" holds no "</svg>";
\* a text whose root is found may still hold a parsererror node (the parser
\* keeps what it read before the error)
Texts ==
  {d @@ [parseError |-> e, open |-> o, close |-> c] :
     d \in TextDocs, e \in BOOLEAN, o \in BOOLEAN, c \in BOOLEAN}
  \ {t \in {d @@ [parseError |-> e, open |-> FALSE, close |-> c] :
              d \in TextDocs, e \in BOOLEAN, c \in BOOLEAN} : t.hasSvg}

\* the result of a call: a returned value or an exception that left it
Returned(v) == [threw |-> FALSE, value |-> v]

\* A faulty variant of Guarded: the try block has no catch.
GuardedWithoutCatch(fault, steps, value, fallback) ==
  IF fault \in steps THEN [threw |-> TRUE, value |-> fallback] ELSE Returned(value)

\* try { ... return value } catch { return fallback }: fault is the step
\* that throws in this call ("none": no step does), steps are the steps the
\* try block reaches
Guarded(fault, steps, value, fallback) ==
  IF fault \in steps THEN Returned(fallback) ELSE Returned(value)

\* part_001: !!svg && !parseError
isValidSVG(text) == text.hasSvg /\ ~text.parseError

\* src/index.tsx: content.includes('<svg') && content.includes('</svg>')
isValidSVGIndex(text) == text.open /\ text.close

\* One element after the forEach body of the preview styler.  The source
\* elements carry no stroke-width and no opacity attribute (None).
PreviewEl(el, st) ==
  LET fills == el.tag \in {"path", "circle", "rect", "ellipse", "polygon", "polyline"}
                /\ el.fill # Some("none")
      strokes == el.tag \in {"path", "circle", "rect", "ellipse", "line",
                             "polyline", "polygon"}
                 /\ el.stroke # Some("none")
  IN [el |-> [el EXCEPT !.fill = IF fills THEN Some(st.fillColor) ELSE @,
                        !.stroke = IF strokes THEN Some(st.strokeColor) ELSE @],
      strokeWidth |-> IF strokes THEN Some(HalfStr(st.strokeWidth)) ELSE None,
      opacity |-> Some(TenthStr(st.opacity))]

\* The serialized preview document, or None: the source text itself.
applyStylesToSVGForPreview(text, st) ==
  IF ~text.hasSvg THEN None
  ELSE Some([viewBox |-> IF IsSome(text.viewBox) /\ Get(text.viewBox) # <<>>
                         THEN text.viewBox ELSE Some(<<0, 0, U(24), U(24)>>),
             width |-> None,
             height |-> None,
             preserveAspectRatio |-> Some("xMidYMid meet"),
             elems |-> [i \in DOMAIN text.elems |-> PreviewEl(text.elems[i], st)]])

\* the steps of the try block of the two document functions: with no root
\* they return before the serializer is made
StepsOf(text) == IF text.hasSvg THEN {"parser", "serializer"} ELSE {"parser"}

InitText ==
  /\ designer = "none"
  /\ AppStart
  /\ normRun = NoRun
  /\ textRun \in {[src |-> t, st |-> s, fault |-> f, valid |-> None,
                    validIndex |-> None, preview |-> None, norm |-> None] :
                    t \in Texts, s \in StyleSets,
                    f \in {"none", "parser", "serializer"}}
  /\ legacy = <<>>
  /\ indexApp = <<>>

\* each call is made once on the text
Validate ==
  /\ textRun.valid = None
  /\ textRun' = [textRun EXCEPT
       !.valid = Some(Guarded(textRun.fault, {"parser"},
                              isValidSVG(textRun.src), FALSE))]
  /\ UNCHANGED <<appVars, normRun, legacy, indexApp>>

ValidateIndex ==
  /\ textRun.validIndex = None
  /\ textRun' = [textRun EXCEPT
       !.validIndex = Some(Returned(isValidSVGIndex(textRun.src)))]
  /\ UNCHANGED <<appVars, normRun, legacy, indexApp>>

Preview ==
  /\ textRun.preview = None
  /\ textRun' = [textRun EXCEPT
       !.preview = Some(Guarded(textRun.fault, StepsOf(textRun.src),
                                applyStylesToSVGForPreview(textRun.src, textRun.st),
                                None))]
  /\ UNCHANGED <<appVars, normRun, legacy, indexApp>>

NormalizeText ==
  /\ textRun.norm = None
  /\ textRun' = [textRun EXCEPT
       !.norm = Some(Guarded(textRun.fault, StepsOf(textRun.src),
                             normalizeSVGToPathOnly(textRun.src, textRun.st),
                             [svg |-> None, count |-> 0]))]
  /\ UNCHANGED <<appVars, normRun, legacy, indexApp>>

NextText == Validate \/ ValidateIndex \/ Preview \/ NormalizeText

SpecText == InitText /\ [][NextText]_vars

(***************************************************************************)
(* handleApplySVG of part_002, from its first host call on, with the API   *)
(* ready and a text that has a root.  legacy.pc is the host call the       *)
(* function awaits ("all": Promise.all of the shapes' appendDomWithTag     *)
(* calls), left the root attributes still to set, child the position of    *)
(* each shape's appendDomWithTag: the host call it awaits and the          *)
(* attributes still to set.  The host answers every call.                  *)
(***************************************************************************)
\* the shape nodes of querySelectorAll("path,rect,circle,...")
LegacyShapes(doc) ==
  SelectSeq(doc.elems,
            LAMBDA el : el.tag \in {"path", "rect", "circle", "ellipse", "line",
                                    "polygon", "polyline"})

\* the number of attributes appendDomWithTag sets on a shape: fill (set to
\* currentColor or kept as none), and the attributes the element has
AttrCount(el) ==
  1 + (IF IsSome(el.stroke) THEN 1 ELSE 0) + (IF IsSome(el.d) THEN 1 ELSE 0)
    + (IF IsSome(el.pts) THEN 1 ELSE 0)
    + Cardinality({f \in DOMAIN el.geo : IsSome(el.geo[f])})

\* the number of attributes of the root: xmlns and those present
RootAttrCount(doc) ==
  1 + Cardinality({f \in {"viewBox", "width", "height"} : IsSome(doc[f])})

InitLegacy ==
  /\ designer = "none"
  /\ AppStart
  /\ normRun = NoRun
  /\ textRun = <<>>
  /\ legacy \in {[pc |-> "getSelectedElement", doc |-> Docs[i], left |-> 0,
                   child |-> <<>>, notices |-> <<>>] : i \in DOMAIN Docs}
  /\ indexApp = <<>>

\* getSelectedElement answers: nothing selected, an element that cannot
\* host children, or one that can
LegacySelected ==
  /\ legacy.pc = "getSelectedElement"
  /\ \E sel \in {"null", "leaf", "host"} :
       legacy' =
         IF sel = "null"
         THEN [legacy EXCEPT !.pc = "done", !.notices = Append(@, "Warning")]
         ELSE IF sel = "leaf"
         THEN [legacy EXCEPT !.pc = "done", !.notices = Append(@, "Error")]
         ELSE [legacy EXCEPT !.pc = "append"]
  /\ UNCHANGED <<appVars, normRun, textRun, indexApp>>

\* What follows the last root attribute: the loop calls appendDomWithTag for
\* every shape node without awaiting it, so each runs up to its own
\* parent.append; then Promise.all is awaited (it is settled at once when
\* there is no shape).
StartShapes(l) ==
  LET shapes == LegacyShapes(l.doc)
  IN IF shapes = <<>>
     THEN [l EXCEPT !.pc = "done", !.notices = Append(@, "Success")]
     ELSE [l EXCEPT !.pc = "all",
                    !.child = [k \in DOMAIN shapes |->
                                 [call |-> "append", left |-> AttrCount(shapes[k])]]]

\* the host answers the call on the root that handleApplySVG awaits
LegacyRootAnswered ==
  /\ legacy.pc \in {"append", "setTag", "setAttribute"}
  /\ legacy' =
       IF legacy.pc = "append" THEN [legacy EXCEPT !.pc = "setTag"]
       ELSE IF legacy.pc = "setTag"
       THEN [legacy EXCEPT !.pc = "setAttribute",
                           !.left = RootAttrCount(legacy.doc) - 1]
       ELSE IF legacy.left > 0 THEN [legacy EXCEPT !.left = @ - 1]
       ELSE StartShapes(legacy)
  /\ UNCHANGED <<appVars, normRun, textRun, indexApp>>

\* the host answers the call that the appendDomWithTag of shape k awaits;
\* when the last of them returns, Promise.all settles and Success is shown
LegacyChildAnswered(k) ==
  /\ legacy.pc = "all"
  /\ legacy.child[k].call # "settled"
  /\ LET c == legacy.child[k]
         after == IF c.call = "append" THEN [c EXCEPT !.call = "setTag"]
                  ELSE IF c.call = "setTag" THEN [c EXCEPT !.call = "setAttribute",
                                                           !.left = @ - 1]
                  ELSE IF c.left > 0 THEN [c EXCEPT !.left = @ - 1]
                  ELSE [c EXCEPT !.call = "settled"]
         child == [legacy.child EXCEPT ![k] = after]
     IN legacy' =
          IF \A j \in DOMAIN child : child[j].call = "settled"
          THEN [legacy EXCEPT !.child = child, !.pc = "done",
                              !.notices = Append(@, "Success")]
          ELSE [legacy EXCEPT !.child = child]
  /\ UNCHANGED <<appVars, normRun, textRun, indexApp>>

NextLegacy ==
  \/ LegacySelected
  \/ LegacyRootAnswered
  \/ \E k \in 1..MaxElems : k \in DOMAIN legacy.child /\ LegacyChildAnswered(k)

SpecLegacy == InitLegacy /\ [][NextLegacy]_vars

(***************************************************************************)
(* The App component of src/index.tsx.  indexApp holds its state:          *)
(* isApplying, currentSVG (0: null, else the number of the value set       *)
(* last), selectedElement (whether the poll found one), timer (the pending *)
(* auto-apply timeout with the currentSVG and selectedElement of the       *)
(* render that set it), calls (the host call each applySVGToWebflow call   *)
(* awaits), started and edits (counters).  A state update is in effect     *)
(* when the function reaches its next await.                               *)
(***************************************************************************)
InitIndex ==
  /\ designer = "none"
  /\ AppStart
  /\ normRun = NoRun
  /\ textRun = <<>>
  /\ legacy = <<>>
  /\ indexApp = [isApplying |-> FALSE, currentSVG |-> 0, selectedElement |-> FALSE,
                 timer |-> None, calls |-> [id \in ProcIds |-> "idle"],
                 started |-> 0, edits |-> 0]

\* the selection poll: setSelectedElement(hasElement ? element : null); the
\* auto-apply effect does not depend on selectedElement
IndexPoll ==
  /\ indexApp' = [indexApp EXCEPT !.selectedElement = ~@]
  /\ UNCHANGED <<appVars, normRun, textRun, legacy>>

\* setCurrentSVG from an upload, updateSVGStyle or resetStyles (none of them
\* is disabled while isApplying); the effect's cleanup clears the timeout
\* and the effect sets a new one when currentSVG && selectedElement
IndexEdit ==
  /\ indexApp.edits < MaxEvents
  /\ indexApp' =
       [indexApp EXCEPT
          !.edits = @ + 1,
          !.currentSVG = indexApp.edits + 1,
          !.timer = IF indexApp.selectedElement
                    THEN Some([svg |-> indexApp.edits + 1, sel |-> TRUE])
                    ELSE None]
  /\ UNCHANGED <<appVars, normRun, textRun, legacy>>

\* applySVGToWebflow of the render with currentSVG svg and selectedElement
\* sel, up to its first await: it returns at once or sets isApplying and
\* awaits selectedElement.setHtml
applySVGToWebflow(a, svg, sel) ==
  IF svg = 0 \/ ~sel
  THEN [a EXCEPT !.started = @ + 1, !.calls[a.started + 1] = "done"]
  ELSE [a EXCEPT !.started = @ + 1, !.calls[a.started + 1] = "setHtml",
                 !.isApplying = TRUE]

\* the timeout fires
IndexTimerFires ==
  /\ IsSome(indexApp.timer)
  /\ indexApp.started < MaxApplies
  /\ indexApp' = applySVGToWebflow([indexApp EXCEPT !.timer = None],
                                   Get(indexApp.timer).svg, Get(indexApp.timer).sel)
  /\ UNCHANGED <<appVars, normRun, textRun, legacy>>

\* the Apply button: disabled={!currentSVG || isApplying}
IndexClickApply ==
  /\ indexApp.currentSVG # 0
  /\ ~indexApp.isApplying
  /\ indexApp.started < MaxApplies
  /\ indexApp' = applySVGToWebflow(indexApp, indexApp.currentSVG,
                                   indexApp.selectedElement)
  /\ UNCHANGED <<appVars, normRun, textRun, legacy>>

\* the host call after c in applySVGToWebflow and its fallback
NextCall(c) ==
  IF c = "createStyle" THEN "setProperties"
  ELSE IF c = "setProperties" THEN "getStyles"
  ELSE IF c = "getStyles" THEN "setStyles"
  ELSE "done"

\* The host answers the call that invocation id awaits.  setHtml fulfilled:
\* finally; setHtml rejected: the fallback starts with createStyle; a call of
\* the fallback fulfilled: the next one, after setStyles finally; rejected:
\* the alert, then finally.  finally is setIsApplying(false).
IndexHostAnswers(id, ok) ==
  /\ indexApp.calls[id] \notin {"idle", "done"}
  /\ LET c == indexApp.calls[id]
         next == IF c = "setHtml" THEN (IF ok THEN "done" ELSE "createStyle")
                 ELSE IF ok THEN NextCall(c) ELSE "done"
     IN indexApp' = [indexApp EXCEPT
                       !.calls[id] = next,
                       !.isApplying = IF next = "done" THEN FALSE ELSE @]
  /\ UNCHANGED <<appVars, normRun, textRun, legacy>>

NextIndex ==
  \/ IndexPoll
  \/ IndexEdit
  \/ IndexTimerFires
  \/ IndexClickApply
  \/ \E id \in ProcIds : \E ok \in BOOLEAN : IndexHostAnswers(id, ok)

SpecIndex == InitIndex /\ [][NextIndex]_vars

(***************************************************************************)
(* Properties.                                                             *)
(***************************************************************************)
\* the value of attribute name in a list of attributes (None: not set)
AttrOf(attrs, name) ==
  LET at == {j \in DOMAIN attrs : attrs[j][1] = name}
  IN IF at = {} THEN None ELSE Some(attrs[CHOOSE j \in at : TRUE][2])

\* the positions of the emitted elements of a source document, in document
\* order: those with a non-blank d of their own or of their shape
EmittedAt(src) ==
  IF ~src.hasSvg THEN <<>>
  ELSE SelectSeq([j \in DOMAIN src.elems |-> j],
                 LAMBDA j : Eligible(src.elems[j]))

\* the paths of a result of normalizeSVGToPathOnly
PathsOf(out) == IF IsSome(out.svg) THEN Get(out.svg).paths ELSE <<>>

\* C5: for every source document, the paths normalizeSVGToPathOnly emits
\* are the document's emitted elements in document order, the k-th of them
\* (from 0) carries the index tag k, and the returned count is their
\* number: skipped elements use up no index.
C5_IndexTagsContiguous ==
  IsSome(normRun.out) =>
    LET out == Get(normRun.out)
        at == EmittedAt(normRun.src)
        paths == PathsOf(out)
    IN /\ out.count = Len(at)
       /\ Len(paths) = Len(at)
       /\ \A k \in DOMAIN paths :
            /\ AttrOf(paths[k], "data-svg-ext-path-idx") = Some(IntStr(k - 1))
            /\ AttrOf(paths[k], "d") = ShapeD(normRun.src.elems[at[k]])

\* a document normalized to two paths with skipped elements before and
\* between them
C5_Witness ==
  /\ IsSome(normRun.out)
  /\ Get(normRun.out).count = 2
  /\ \E a, b, c, d \in DOMAIN normRun.src.elems :
       /\ a < b /\ b < c /\ c < d
       /\ ~Eligible(normRun.src.elems[a]) /\ Eligible(normRun.src.elems[b])
       /\ ~Eligible(normRun.src.elems[c]) /\ Eligible(normRun.src.elems[d])

\* how often x occurs in a sequence
CountOf(seq, x) == Cardinality({j \in DOMAIN seq : seq[j] = x})

\* the <svg> roots created for an item: the elements an apply of that item
\* appended to its container
SvgRootsOf(it) ==
  {n \in DOMAIN hostNodes :
     /\ hostNodes[n].by # 0
     /\ hostNodes[n].shape = -1
     /\ hostNodes[n].parent # 0
     /\ procs[hostNodes[n].by].item = it}

\* invocation id ran applySvgIntoWebflow to its end
Materialized(id) ==
  /\ procs[id].pc = "done"
  /\ procs[id].restyled = "false"
  /\ procs[id].issued > 0
  /\ ~procs[id].threw

\* invocation b restyled the insertion that invocation a recorded
RestyledFrom(b, a) ==
  /\ IsSome(procs[b].ref)
  /\ Get(procs[b].ref).svgRoot = procs[a].svgRoot

\* the index tag of host element n
IdxTag(n) == hostNodes[n].attrs["data-svg-ext-path-idx"]

\* C1: in every recorded insertion, the handle at position k of paths
\* (from 0) is the host node created for the normalized path of shape
\* index k.
C1_ShapeOrderKept ==
  \A it \in ItemIds :
    IsSome(wfRefs[it]) =>
      \A k \in DOMAIN Get(wfRefs[it]).paths :
        hostNodes[Get(wfRefs[it]).paths[k]].shape = k - 1

\* C2: a restyle with a specific index k issues attribute updates only to
\* the host node whose index tag is k.
C2_RestyleKeyedByIndexTag ==
  \A id \in ProcIds :
    procs[id].pathTarget # All =>
      \A n \in procs[id].updated : IdxTag(n) = Some(IntStr(procs[id].pathTarget))

\* C3: the <svg> root of an item is created at most once, whatever applies
\* ran and however they interleaved.
C3_SvgRootCreatedOnce ==
  \A it \in ItemIds : Cardinality(SvgRootsOf(it)) <= 1

\* C4: an apply has issued no host call as long as an earlier apply of the
\* same item has not settled.
C4_OneApplyInFlight ==
  \A a, b \in ProcIds :
    (a < b /\ procs[a].outcome = "pending" /\ procs[b].item = procs[a].item)
      => procs[b].issued = 0

\* the nodes invocation id created
CreatedBy(id) == {n \in DOMAIN hostNodes : hostNodes[n].by = id}

\* invocation a materialized its item with a specific target inside the
\* document's paths
MaterializedOne(a) ==
  /\ Materialized(a)
  /\ procs[a].pathTarget # All
  /\ procs[a].pathTarget < Norm(procs[a]).count

\* invocation b went through restyleExistingInWebflow with "all" on the
\* insertion of invocation a, to its end
RestyledAllFrom(b, a) ==
  /\ RestyledFrom(b, a)
  /\ procs[b].pathTarget = All
  /\ procs[b].restyled = "true"

\* C6 as stated: a materialization with a specific target k creates one host
\* path node, tagged k; a later restyle with "all" sends updates to exactly
\* that node and creates none.
C6_OneNodeTaggedThenRestyled ==
  \A a \in ProcIds :
    MaterializedOne(a) =>
      /\ Len(procs[a].created) = 1
      /\ IdxTag(procs[a].created[1]) = Some(IntStr(procs[a].pathTarget))
      /\ \A b \in ProcIds :
           RestyledAllFrom(b, a) =>
             /\ procs[b].updated = {procs[a].created[1]}
             /\ CreatedBy(b) = {}

\* C6: a materialization with a specific target k creates one host path
\* node, tagged k if the node takes custom attributes; a later restyle with
\* "all" sends updates to exactly the nodes of that materialization that
\* take custom attributes and creates none.
C6_OneNodeThenRestyled ==
  \A a \in ProcIds :
    MaterializedOne(a) =>
      /\ Len(procs[a].created) = 1
      /\ hostNodes[procs[a].created[1]].shape = procs[a].pathTarget
      /\ canSetAttr(hostNodes[procs[a].created[1]].caps)
           => IdxTag(procs[a].created[1]) = Some(IntStr(procs[a].pathTarget))
      /\ \A b \in ProcIds :
           RestyledAllFrom(b, a) =>
             /\ procs[b].updated =
                  {n \in {procs[a].created[1]} : canSetAttr(hostNodes[n].caps)}
             /\ CreatedBy(b) = {}

\* shape 1 of a two-path document was materialized alone and then restyled
\* with "all"
C6_Witness ==
  \E a, b \in ProcIds :
    /\ MaterializedOne(a)
    /\ procs[a].pathTarget = 1
    /\ RestyledAllFrom(b, a)
    /\ procs[b].updated = {procs[a].created[1]}
    /\ Cardinality(DOMAIN hostNodes) = Len(PageCaps) + 2

\* C7: when restyleExistingInWebflow returned true on an insertion whose
\* handles all take custom attributes, a host node of the insertion
\* received its four updates; when it returned false, it issued no host
\* call.
C7_RestyleResultTruthful ==
  \A id \in ProcIds :
    /\ ( /\ procs[id].restyled = "true"
         /\ \A k \in DOMAIN Get(procs[id].ref).paths :
              canSetAttr(hostNodes[Get(procs[id].ref).paths[k]].caps) )
         => ( /\ procs[id].updated # {}
              /\ procs[id].rsCalls >= Len(RestyleAttrs(procs[id].styles)) )
    /\ procs[id].restyled = "false" => procs[id].rsCalls = 0

C9_RestyleFailureCaught ==
  \A id \in ProcIds :
    (procs[id].threw /\ procs[id].restyled # "false") =>
      /\ procs[id].outcome = "fulfilled"
      /\ CountOf(procs[id].notices, "Error") = 1

\* C10: applySvgIntoWebflow on an item whose normalization has count 0
\* returns at once: no host call, no node, no insertion recorded, nothing
\* thrown, no notice.
C10_NoPathsNoOp ==
  \A id \in ProcIds :
    (procs[id].restyled = "false" /\ Norm(procs[id]).count = 0) =>
      /\ procs[id].pc = "done"
      /\ procs[id].outcome = "fulfilled"
      /\ procs[id].issued = 0
      /\ CreatedBy(id) = {}
      /\ ~IsSome(wfRefs[procs[id].item])
      /\ ~procs[id].threw
      /\ procs[id].notices = <<>>

\* an apply of a document without representable shape has returned
C10_Witness ==
  \E id \in ProcIds :
    /\ procs[id].restyled = "false"
    /\ Norm(procs[id]).count = 0
    /\ procs[id].pc = "done"

\* the closure of a timeout set by the render that shows the present state
FreshClosure == [item |-> current, styles |-> styles, pathTarget |-> pathTarget]

\* C11: at most one auto-apply timeout is pending, the pending one was set
\* after the last change of current, styles and pathTarget (it closes over
\* their present values, with auto-apply on), and a timeout that fires
\* starts applyIntoWebflow on exactly these values.
C11_DebounceLatestOnly ==
  /\ [](/\ Len(timer) <= 1
        /\ IsSome(timer) => (autoApply /\ current # 0 /\ Get(timer) = FreshClosure))
  /\ [][(Len(timer) > 0 /\ timer' = None /\ started' = started + 1)
          => /\ procs'[started'].item = current
             /\ procs'[started'].styles = styles
             /\ procs'[started'].pathTarget = pathTarget]_vars

\* a timeout set after two edits (an upload, then a change of target) has
\* fired and its apply runs on the changed target
C11_Witness ==
  /\ started = 1
  /\ timer = None
  /\ events = 2
  /\ pathTarget = 1
  /\ procs[1].outcome = "pending"
  /\ procs[1].pathTarget = 1

\* the handles of the insertion invocation id restyles that pathTarget
\* selects: all of them, or the one created for shape index pathTarget
SelectedNodes(id) ==
  {n \in {Get(procs[id].ref).paths[k] : k \in DOMAIN Get(procs[id].ref).paths} :
     procs[id].pathTarget = All \/ hostNodes[n].shape = procs[id].pathTarget}

\* C12: when restyleExistingInWebflow has returned true and no other
\* invocation issued a restyle update, every host node that pathTarget
\* selects and that takes custom attributes carries the opacity, fill, stroke
\* and stroke-width of the invocation's StyleSet, whatever it carried before.
C12_RestyleOverwrites ==
  \A id \in ProcIds :
    ( /\ procs[id].restyled = "true"
      /\ \A b \in ProcIds \ {id} : procs[b].rsCalls = 0 )
      => \A n \in SelectedNodes(id) :
           canSetAttr(hostNodes[n].caps) =>
             \A j \in DOMAIN RestyleAttrs(procs[id].styles) :
               hostNodes[n].attrs[RestyleAttrs(procs[id].styles)[j][1]]
                 = Some(RestyleAttrs(procs[id].styles)[j][2])

\* the source element of the k-th emitted path of the session run
SourceOf(k) == normRun.src.elems[EmittedAt(normRun.src)[k]]

\* the fill, the stroke and the opacity every emitted path of the session
\* run must carry: "none" where the source element says none, the styles'
\* value otherwise
PaintKept ==
  \A k \in DOMAIN PathsOf(Get(normRun.out)) :
    LET a == PathsOf(Get(normRun.out))[k]
    IN /\ AttrOf(a, "fill")
            = Some(IF SourceOf(k).fill = Some("none") THEN "none"
                   ELSE normRun.st.fillColor)
       /\ AttrOf(a, "stroke")
            = Some(IF SourceOf(k).stroke = Some("none") THEN "none"
                   ELSE normRun.st.strokeColor)
       /\ AttrOf(a, "stroke-width") \in {None, Some(HalfStr(normRun.st.strokeWidth))}
       /\ AttrOf(a, "opacity") = Some(TenthStr(normRun.st.opacity))

\* C13 as stated: fill and stroke are "none" where the source says none and
\* the styles' colours otherwise, opacity is the styles' opacity, and
\* stroke-width is emitted exactly when the emitted stroke is not "none".
C13_StrokeWidthIffEmittedStroke ==
  IsSome(normRun.out) =>
    /\ PaintKept
    /\ \A k \in DOMAIN PathsOf(Get(normRun.out)) :
         IsSome(AttrOf(PathsOf(Get(normRun.out))[k], "stroke-width"))
           <=> AttrOf(PathsOf(Get(normRun.out))[k], "stroke") # Some("none")

\* C13: fill and stroke are "none" where the source says none and the
\* styles' colours otherwise, opacity is the styles' opacity, and
\* stroke-width (the styles' width) is emitted exactly when the source
\* element's stroke is not literally "none".
C13_StrokeWidthIffSourceStroke ==
  IsSome(normRun.out) =>
    /\ PaintKept
    /\ \A k \in DOMAIN PathsOf(Get(normRun.out)) :
         IsSome(AttrOf(PathsOf(Get(normRun.out))[k], "stroke-width"))
           <=> SourceOf(k).stroke # Some("none")

\* a shape with fill="none" and a stroke colour of its own was emitted under
\* the edited styles: its fill stays none, its stroke is the styles' colour
\* with the styles' width
C13_Witness ==
  /\ IsSome(normRun.out)
  /\ normRun.st = EditedStyle
  /\ Get(normRun.out).count = 1
  /\ SourceOf(1).fill = Some("none")
  /\ SourceOf(1).stroke = Some("red")
  /\ AttrOf(PathsOf(Get(normRun.out))[1], "fill") = Some("none")
  /\ AttrOf(PathsOf(Get(normRun.out))[1], "stroke") = Some(EditedStyle.strokeColor)
  /\ AttrOf(PathsOf(Get(normRun.out))[1], "stroke-width") = Some("1")

\* the attributes of the normalized path element that host node n was
\* created for
NormAttrsOf(n) ==
  Get(Norm(procs[hostNodes[n].by]).svg).paths[hostNodes[n].shape + 1]

\* host path node n was returned by appendDomWithTag to an
\* applySvgIntoWebflow, and no restyle has updated it since
FreshPathNode(n) ==
  /\ hostNodes[n].shape >= 0
  /\ \E j \in DOMAIN procs[hostNodes[n].by].created :
       procs[hostNodes[n].by].created[j] = n
  /\ \A b \in ProcIds : n \notin procs[b].updated

\* the attributes in the list na, as a host element holds them; those with
\* an empty value are left out if skipEmpty
HeldAttrs(na, skipEmpty) ==
  [a \in AttrNames |->
     LET at == {j \in DOMAIN na : na[j][1] = a /\ (skipEmpty => NonEmpty(na[j]))}
     IN IF at = {} THEN None ELSE Some(na[CHOOSE j \in at : TRUE][2])]

\* C14 as stated: every host path node created by applySvgIntoWebflow
\* carries every attribute of its normalized path element, whatever the
\* StyleSet and whatever element the host handed out.
C14_AllAttrsCopied ==
  \A n \in DOMAIN hostNodes :
    FreshPathNode(n) => hostNodes[n].attrs = HeldAttrs(NormAttrsOf(n), FALSE)

\* C14: a host path node that appendDomWithTag returned and that exposes
\* customAttributes and setAttribute carries every attribute of its
\* normalized path element whose value is not the empty string, and no
\* other attribute.
C14_NonEmptyAttrsCopied ==
  \A n \in DOMAIN hostNodes :
    (FreshPathNode(n) /\ canSetAttr(hostNodes[n].caps))
      => hostNodes[n].attrs = HeldAttrs(NormAttrsOf(n), TRUE)

\* the circle (stroke="none") was materialized under the edited styles on
\* an element with all capabilities: d, stroke, opacity and the index tag
\* were copied, the empty fill was not
C14_Witness ==
  \E n \in DOMAIN hostNodes :
    /\ FreshPathNode(n)
    /\ hostNodes[n].caps = FullCaps
    /\ Materialized(hostNodes[n].by)
    /\ procs[hostNodes[n].by].styles = EditedStyle
    /\ hostNodes[n].attrs["d"] = circleToPath(CircleEl)
    /\ hostNodes[n].attrs["stroke"] = Some("none")
    /\ hostNodes[n].attrs["stroke-width"] = None
    /\ hostNodes[n].attrs["opacity"] = Some("0.5")
    /\ IdxTag(n) = Some("0")
    /\ hostNodes[n].attrs["fill"] = None

ShapeTags == {"rect", "circle", "ellipse", "line", "polyline", "polygon", "path"}

\* the positions of the shape elements of the session run's source
ShapesIn(src) == {j \in DOMAIN src.elems : src.elems[j].tag \in ShapeTags}

\* The shape has an extent, read off its attributes: a rect of positive
\* width and height, a circle or ellipse of positive radii, any line, a
\* polyline or polygon with a pair of numbers at an even offset of its
\* points, a path with a d that is not blank.
HasExtent(el) ==
  CASE el.tag = "rect" -> num(el.geo.width) > 0 /\ num(el.geo.height) > 0
    [] el.tag = "circle" -> num(el.geo.r) > 0
    [] el.tag = "ellipse" -> num(el.geo.rx) > 0 /\ num(el.geo.ry) > 0
    [] el.tag = "line" -> TRUE
    [] el.tag \in {"polyline", "polygon"} ->
         /\ IsSome(el.pts)
         /\ \E j \in DOMAIN Get(el.pts) :
              /\ j % 2 = 1 /\ j + 1 \in DOMAIN Get(el.pts)
              /\ IsSome(Get(el.pts)[j]) /\ IsSome(Get(el.pts)[j + 1])
    [] el.tag = "path" -> IsSome(el.d) /\ Get(el.d) # <<>>
    [] OTHER -> FALSE

\* the result has one path, tagged 0, and count 1
OnePathIndexZero(out) ==
  /\ out.count = 1
  /\ Len(PathsOf(out)) = 1
  /\ AttrOf(PathsOf(out)[1], "data-svg-ext-path-idx") = Some("0")

\* C15 as stated: a document with a root and exactly one shape element is
\* normalized to exactly one path, with index 0 and count 1.
C15_OneShapeOnePath ==
  ( /\ IsSome(normRun.out)
    /\ normRun.src.hasSvg
    /\ Cardinality(ShapesIn(normRun.src)) = 1 )
    => OnePathIndexZero(Get(normRun.out))

\* C15: a document with a root and exactly one shape element is normalized
\* to exactly one path, with index 0 and count 1, if the shape has an
\* extent, and to no path, with count 0, if it has none.
C15_OneShapeWithExtentOnePath ==
  ( /\ IsSome(normRun.out)
    /\ normRun.src.hasSvg
    /\ Cardinality(ShapesIn(normRun.src)) = 1 )
    => LET el == normRun.src.elems[CHOOSE j \in ShapesIn(normRun.src) : TRUE]
       IN IF HasExtent(el) THEN OnePathIndexZero(Get(normRun.out))
          ELSE Get(normRun.out).count = 0 /\ PathsOf(Get(normRun.out)) = <<>>

\* a polygon whose points hold one pair after a token that is not a number,
\* inside a document of its own, gave one path with index 0
C15_Witness ==
  /\ IsSome(normRun.out)
  /\ Len(normRun.src.elems) = 1
  /\ normRun.src.elems[1].tag = "polygon"
  /\ normRun.src.elems[1].pts = Some(<<None, Some(0), Some(U(1)), Some(0)>>)
  /\ OnePathIndexZero(Get(normRun.out))

\* C16: normalizing the output of a normalization with the same styles
\* gives the same count and, path by path, the same index and the same
\* path data.
C16_IdempotentOnGeometry ==
  (IsSome(normRun.out) /\ IsSome(normRun.fed)) =>
    LET first == Get(normRun.out)
        second == Get(normRun.fed)
    IN /\ second.count = first.count
       /\ Len(PathsOf(second)) = Len(PathsOf(first))
       /\ \A k \in DOMAIN PathsOf(first) :
            /\ AttrOf(PathsOf(second)[k], "data-svg-ext-path-idx")
                 = AttrOf(PathsOf(first)[k], "data-svg-ext-path-idx")
            /\ AttrOf(PathsOf(second)[k], "d") = AttrOf(PathsOf(first)[k], "d")

\* the output of a document of four elements, two of them skipped and the
\* two others a rect and a line, was normalized again: two paths both times
C16_Witness ==
  /\ IsSome(normRun.out)
  /\ IsSome(normRun.fed)
  /\ Len(normRun.src.elems) = 4
  /\ Get(normRun.out).count = 2
  /\ Get(normRun.fed).count = 2
  /\ \E a, b \in DOMAIN normRun.src.elems :
       /\ a < b
       /\ normRun.src.elems[a] = RectEl
       /\ normRun.src.elems[b] = LineEl
  /\ AttrOf(PathsOf(Get(normRun.fed))[1], "d") = rectToPath(RectEl)

ArcsOf(d) == SelectSeq(d, LAMBDA cmd : cmd.c = "A")

\* C18: for every emitted rect, the path has arcs exactly when rx or ry is
\* positive; then the radii of every arc are positive, the x radius is at
\* most width/2 and the y radius at most height/2, and they are the clamped
\* rx and ry, a radius that is missing or not positive being replaced by the
\* other one before clamping.
C18_RoundedRectRadii ==
  IsSome(normRun.out) =>
    \A k \in DOMAIN PathsOf(Get(normRun.out)) :
      SourceOf(k).tag = "rect" =>
        LET geo == SourceOf(k).geo
            rx == num(geo.rx)
            ry == num(geo.ry)
            arcs == ArcsOf(Get(AttrOf(PathsOf(Get(normRun.out))[k], "d")))
        IN /\ (arcs # <<>>) <=> (rx > 0 \/ ry > 0)
           /\ \A j \in DOMAIN arcs :
                /\ arcs[j].a[1] > 0
                /\ arcs[j].a[2] > 0
                /\ 2 * arcs[j].a[1] <= num(geo.width)
                /\ 2 * arcs[j].a[2] <= num(geo.height)
                /\ arcs[j].a[1]
                     = Min(IF rx > 0 THEN rx ELSE ry, num(geo.width) \div 2)
                /\ arcs[j].a[2]
                     = Min(IF ry > 0 THEN ry ELSE rx, num(geo.height) \div 2)

\* the session run's source is a document of the one element it returns
OnlyElem == normRun.src.elems[1]

\* d is a closed path of two arcs with radii rx and ry from (cx - rx, cy)
\* over (cx + rx, cy) back to (cx - rx, cy)
TwoArcLoop(d, cx, cy, rx, ry) ==
  /\ Len(d) = 4
  /\ d[1] = Cmd("M", <<cx - rx, cy>>)
  /\ d[2].c = "A" /\ SubSeq(d[2].a, 1, 2) = <<rx, ry>>
  /\ SubSeq(d[2].a, 6, 7) = <<cx + rx, cy>>
  /\ d[3].c = "A" /\ SubSeq(d[3].a, 1, 2) = <<rx, ry>>
  /\ SubSeq(d[3].a, 6, 7) = <<cx - rx, cy>>
  /\ d[4] = Cmd("Z", <<>>)

\* C19: a document whose one element is a circle gives no path exactly
\* when r <= 0, one whose one element is an ellipse exactly when rx <= 0 or
\* ry <= 0; otherwise the path is a closed loop of two arcs from
\* (cx - rx, cy) over (cx + rx, cy) and back (rx = ry = r for a circle).
C19_CircleEllipseTwoArcs ==
  ( /\ IsSome(normRun.out)
    /\ normRun.src.hasSvg
    /\ Len(normRun.src.elems) = 1
    /\ OnlyElem.tag \in {"circle", "ellipse"} )
    => LET geo == OnlyElem.geo
           rx == IF OnlyElem.tag = "circle" THEN num(geo.r) ELSE num(geo.rx)
           ry == IF OnlyElem.tag = "circle" THEN num(geo.r) ELSE num(geo.ry)
           out == Get(normRun.out)
       IN /\ out.count = 0 <=> (rx <= 0 \/ ry <= 0)
          /\ out.count # 0 =>
               TwoArcLoop(Get(AttrOf(PathsOf(out)[1], "d")),
                          num(geo.cx), num(geo.cy), rx, ry)

\* the circle with cx = 5, cy = 5, r = 3 gave a path that starts at (2, 5)
C19_Witness ==
  /\ IsSome(normRun.out)
  /\ normRun.src.elems = <<CircleEl>>
  /\ Get(normRun.out).count = 1
  /\ Get(AttrOf(PathsOf(Get(normRun.out))[1], "d"))[1] = Cmd("M", <<U(2), U(5)>>)
  /\ Len(ArcsOf(Get(AttrOf(PathsOf(Get(normRun.out))[1], "d")))) = 2

\* The point list of a points attribute: the tokens at the 1-based
\* positions 1-2, 3-4, ... in order, a last token without partner and every
\* pair with a token that is not a number left out.
PointList(pts) ==
  LET toks == IF IsSome(pts) THEN Get(pts) ELSE <<>>
      firsts == SelectSeq([j \in 1..Len(toks) |-> j],
                          LAMBDA j : /\ j % 2 = 1
                                     /\ j + 1 <= Len(toks)
                                     /\ IsSome(toks[j])
                                     /\ IsSome(toks[j + 1]))
  IN [k \in 1..Len(firsts) |-> <<Get(toks[firsts[k]]), Get(toks[firsts[k] + 1])>>]

\* "M x0 y0 L x1 y1 ..." over a point list
MoveThenLines(points) ==
  [k \in 1..Len(points) |-> Cmd(IF k = 1 THEN "M" ELSE "L", points[k])]

\* C20: a document whose one element is a polyline or a polygon gives no
\* path exactly when the point list of its points attribute is empty;
\* otherwise the polyline's path is "M x0 y0 L x1 y1 ..." over that list and
\* the polygon's path is the same followed by Z, which is also what
\* polylineToPath gives on the polygon's points followed by Z.
C20_PolygonIsClosedPolyline ==
  ( /\ IsSome(normRun.out)
    /\ normRun.src.hasSvg
    /\ Len(normRun.src.elems) = 1
    /\ OnlyElem.tag \in {"polyline", "polygon"} )
    => LET points == PointList(OnlyElem.pts)
           out == Get(normRun.out)
           open == polylineToPath([OnlyElem EXCEPT !.tag = "polyline"])
       IN /\ out.count = 0 <=> points = <<>>
          /\ open = None <=> points = <<>>
          /\ out.count # 0 =>
               /\ open = Some(MoveThenLines(points))
               /\ AttrOf(PathsOf(out)[1], "d")
                    = IF OnlyElem.tag = "polyline" THEN open
                      ELSE Some(Get(open) \o <<Cmd("Z", <<>>)>>)

\* the polygon with points "0,0 1,0" gave the path "M 0 0 L 1 0 Z"
C20_Witness ==
  /\ IsSome(normRun.out)
  /\ Len(normRun.src.elems) = 1
  /\ OnlyElem.tag = "polygon"
  /\ OnlyElem.pts = Some(<<Some(0), Some(0), Some(U(1)), Some(0)>>)
  /\ AttrOf(PathsOf(Get(normRun.out))[1], "d")
       = Some(<<Cmd("M", <<0, 0>>), Cmd("L", <<U(1), 0>>), Cmd("Z", <<>>)>>)

\* the tags the preview styler sets a paint on
Styleable == {"path", "circle", "rect", "ellipse", "line", "polyline", "polygon"}

\* the preview document of the call, when the call returned one
PreviewDoc == Get(Get(textRun.preview).value)

\* C21: applyStylesToSVGForPreview keeps the elements of the document as
\* they are (none added, removed or converted); on an element whose tag is
\* styleable it overwrites fill, stroke, stroke-width and opacity, except
\* that a fill or stroke that is "none" is kept; every other element is left
\* unchanged.
C21_PreviewTouchesStyleableOnly ==
  (IsSome(textRun.preview) /\ IsSome(Get(textRun.preview).value)) =>
    LET src == textRun.src
        st == textRun.st
    IN /\ DOMAIN PreviewDoc.elems = DOMAIN src.elems
       /\ \A i \in DOMAIN src.elems :
            LET a == src.elems[i]
                b == PreviewDoc.elems[i]
            IN /\ b.el.tag = a.tag /\ b.el.geo = a.geo
               /\ b.el.d = a.d /\ b.el.pts = a.pts
               /\ IF a.tag \in Styleable
                  THEN /\ b.el.fill = IF a.fill = Some("none") THEN a.fill
                                      ELSE Some(st.fillColor)
                       /\ b.el.stroke = IF a.stroke = Some("none") THEN a.stroke
                                        ELSE Some(st.strokeColor)
                       /\ b.strokeWidth = IF a.stroke = Some("none") THEN None
                                          ELSE Some(HalfStr(st.strokeWidth))
                       /\ b.opacity = Some(TenthStr(st.opacity))
                  ELSE b = [el |-> a, strokeWidth |-> None, opacity |-> None]

\* C22: isValidSVG(text), in part_001 and in src/index.tsx, returns true
\* exactly when the parsed text has a root svg and no parser error node, and
\* never throws.
C22_ValidIffRootAndNoParserError ==
  LET wellFormed == textRun.src.hasSvg /\ ~textRun.src.parseError
  IN /\ IsSome(textRun.valid) =>
          /\ ~Get(textRun.valid).threw
          /\ Get(textRun.valid).value = (textRun.fault # "parser" /\ wellFormed)
     /\ IsSome(textRun.validIndex) =>
          /\ ~Get(textRun.validIndex).threw
          /\ Get(textRun.validIndex).value = wellFormed

\* C23: normalizeSVGToPathOnly and applyStylesToSVGForPreview never throw;
\* with no root svg, or when the parser or the serializer fails, the
\* normalizer returns the source text with count 0 and the preview styler
\* returns the source text.
C23_TextFunctionsNeverThrow ==
  LET failed == ~textRun.src.hasSvg \/ textRun.fault \in StepsOf(textRun.src)
  IN /\ IsSome(textRun.norm) =>
          /\ ~Get(textRun.norm).threw
          /\ failed => Get(textRun.norm).value = [svg |-> None, count |-> 0]
          /\ ~failed => IsSome(Get(textRun.norm).value.svg)
     /\ IsSome(textRun.preview) =>
          /\ ~Get(textRun.preview).threw
          /\ failed <=> Get(textRun.preview).value = None

\* a call of each function in which the serializer threw on a document with
\* a root and one emitted shape
C23_Witness ==
  /\ textRun.src.hasSvg
  /\ textRun.src.elems = <<CircleEl>>
  /\ textRun.fault = "serializer"
  /\ IsSome(textRun.norm) /\ IsSome(textRun.preview)
  /\ Get(textRun.norm).value.count = 0

\* the viewBox of the document a call of the normalizer returned
NormViewBox == AttrOf(Get(Get(textRun.norm).value.svg).root, "viewBox")

\* a call of the normalizer that returned an output document
NormReturnedDoc ==
  /\ IsSome(textRun.norm)
  /\ ~Get(textRun.norm).threw
  /\ IsSome(Get(textRun.norm).value.svg)

\* what width and height give when they are positive and finite, else the
\* default box
BoxFromSize(src) ==
  IF /\ IsSome(src.width) /\ IsSome(src.height)
     /\ Get(src.width) # Infinity /\ Get(src.height) # Infinity
     /\ Get(src.width) > 0 /\ Get(src.height) > 0
  THEN <<0, 0, Get(src.width), Get(src.height)>>
  ELSE <<0, 0, U(24), U(24)>>

\* C24 as stated: the viewBox of the normalized document is the source's
\* viewBox when the attribute is present, else "0 0 w h" when width and
\* height are positive and finite, else "0 0 24 24".
C24_ViewBoxKeptWhenPresent ==
  NormReturnedDoc =>
    NormViewBox = Some(IF IsSome(textRun.src.viewBox) THEN Get(textRun.src.viewBox)
                       ELSE BoxFromSize(textRun.src))

\* C24: the viewBox of the normalized document is the source's viewBox when
\* the attribute is present and not empty, else "0 0 w h" when width and
\* height are positive and finite, else "0 0 24 24".
C24_ViewBoxKeptWhenNotEmpty ==
  NormReturnedDoc =>
    NormViewBox = Some(IF IsSome(textRun.src.viewBox) /\ Get(textRun.src.viewBox) # <<>>
                       THEN Get(textRun.src.viewBox)
                       ELSE BoxFromSize(textRun.src))

\* a document without viewBox whose width is 1 and height 3 was normalized
C24_Witness ==
  /\ NormReturnedDoc
  /\ textRun.src.viewBox = None
  /\ textRun.src.width = Some(U(1)) /\ textRun.src.height = Some(U(3))
  /\ NormViewBox = Some(<<0, 0, U(1), U(3)>>)

\* the host calls of the handleApplySVG of part_002 that are issued and not
\* yet answered
LegacyOutstanding ==
  (IF legacy.pc \in {"getSelectedElement", "append", "setTag", "setAttribute"}
   THEN {0} ELSE {})
  \cup {k \in DOMAIN legacy.child : legacy.child[k].call # "settled"}

\* C25: the host calls of one materialization are awaited one by one: at
\* most one host call is outstanding at any time, and the calls of shape k
\* have settled before any call of shape k+1 is issued.
C25_OneHostCallOutstanding ==
  /\ Cardinality(LegacyOutstanding) <= 1
  /\ \A k \in DOMAIN legacy.child :
       k > 1 => legacy.child[k - 1].call = "settled"

\* the item an inserted element was created for (the elements of the
\* insertion the session starts with were created for item 2)
OwnerOf(nodes, n) == IF nodes[n].by = 0 THEN 2 ELSE procs[nodes[n].by].item

\* the elements appendDomWithTag created: the <svg> roots and the paths
Inserted(nodes) == {n \in DOMAIN nodes : nodes[n].parent # 0}

SelectedIdx(q) ==
  {k \in 0..(Norm(q).count - 1) : q.pathTarget = All \/ k = q.pathTarget}

\* C27: an insertion is recorded in wfRefs only by an invocation that
\* created the container, the <svg> root and a node for every selected path
\* without an exception; an invocation that fails part-way leaves wfRefs
\* unchanged, and an apply that starts while no insertion of its item is
\* recorded goes through applySvgIntoWebflow again.
C27_RecordedOnlyWhenComplete ==
  [][/\ \A it \in ItemIds :
          wfRefs'[it] # wfRefs[it] =>
            \E id \in ProcIds :
              LET q == procs'[id]
                  ref == Get(wfRefs'[it])
              IN /\ IsSome(wfRefs'[it])
                 /\ q.item = it /\ ~q.threw /\ q.outcome = "fulfilled"
                 /\ ref.container \in DOMAIN hostNodes'
                 /\ hostNodes'[ref.svgRoot].by = id
                 /\ hostNodes'[ref.svgRoot].parent = ref.container
                 /\ \A j \in DOMAIN ref.paths :
                      /\ hostNodes'[ref.paths[j]].by = id
                      /\ hostNodes'[ref.paths[j]].parent = ref.svgRoot
                 /\ {hostNodes'[ref.paths[j]].shape : j \in DOMAIN ref.paths}
                      = SelectedIdx(q)
                 /\ Len(ref.paths) = Cardinality(SelectedIdx(q))
     /\ \A id \in ProcIds :
          (procs'[id].threw /\ ~procs[id].threw) => wfRefs' = wfRefs
     /\ \A id \in ProcIds :
          (procs[id].pc = "idle" /\ procs'[id].pc # "idle" /\ ApiOk
           /\ ~IsSome(wfRefs[procs'[id].item])) =>
            /\ procs'[id].restyled = "false"
            /\ procs'[id].rsCalls = 0
            /\ Norm(procs'[id]).count > 0 => procs'[id].pc = "getSelected"
    ]_vars

\* an apply failed after its <svg> root was built; the next apply of the
\* same item inserted it anew and was recorded
C27_Witness ==
  \E a, b \in ProcIds :
    /\ a < b
    /\ procs[a].threw /\ procs[a].restyled = "false" /\ procs[a].svgRoot # 0
    /\ procs[b].item = procs[a].item
    /\ procs[b].ref = None /\ procs[b].restyled = "false" /\ ~procs[b].threw
    /\ procs[b].pc = "done"
    /\ IsSome(wfRefs[procs[b].item])
    /\ hostNodes[Get(wfRefs[procs[b].item]).svgRoot].by = b

\* C28: every insertion recorded in wfRefs has a non-empty paths sequence,
\* and its <svg> root has at least one child created for a path, also when
\* pathTarget was kept across a gallery click to an item with fewer paths.
C28_RecordedInsertionHasPaths ==
  \A it \in ItemIds :
    IsSome(wfRefs[it]) =>
      /\ Get(wfRefs[it]).paths # <<>>
      /\ \E n \in DOMAIN hostNodes :
           /\ hostNodes[n].parent = Get(wfRefs[it]).svgRoot
           /\ hostNodes[n].shape >= 0

\* no apply is pending or in flight, and the apply that started last ran as
\* a restyle with the state of the latest render
LatestRestyleSettled ==
  /\ timer = None
  /\ started >= 1
  /\ \A id \in ProcIds : procs[id].pc \in {"idle", "done"} /\ ~procs[id].threw
  /\ procs[started].item = current
  /\ procs[started].styles = styles
  /\ procs[started].pathTarget = pathTarget
  /\ procs[started].restyled = "true"

\* C29: once every apply of an item that was already inserted has settled,
\* each element the latest pathTarget selects carries the opacity, fill,
\* stroke and stroke-width of the StyleSet set last, whatever the order in
\* which the calls of overlapping applies were served.
C29_LastWriteWins ==
  (LatestRestyleSettled /\ current = 2) =>
    \A n \in procs[started].updated :
      \A j \in DOMAIN RestyleAttrs(styles) :
        hostNodes[n].attrs[RestyleAttrs(styles)[j][1]]
          = Some(RestyleAttrs(styles)[j][2])

\* the applySVGToWebflow calls of src/index.tsx that have started and not
\* settled
InFlight == {id \in ProcIds : indexApp.calls[id] \notin {"idle", "done"}}

\* C30: isApplying is true in every state in which an applySVGToWebflow
\* call has started and not settled, whatever the order of timer firings and
\* Apply clicks, and false when no call is in flight.
C30_IsApplyingMirrorsInFlight == indexApp.isApplying <=> InFlight # {}
====
